---- MODULE Spec2Model ----
(***************************************************************************)
(* The AOT-compilation transaction system of ART: the nested transaction   *)
(* list kept by AotClassLinker (runtime/oat/aot_class_linker.cc), the      *)
(* per-transaction logs declared in runtime/transaction.h, and the heap,   *)
(* intern tables and dex-cache slots whose mutations the logs undo.        *)
(***************************************************************************)
EXTENDS Integers, Sequences, FiniteSets, TLC

\* ------------------------------------------------------------------ bounds

\* Deepest nesting of transactions explored.
MaxDepth == 2
\* Most entries of one transaction's intern-string log explored.
MaxInternLog == 3

\* ---------------------------------------------------------------- universe

NullRef == "null"
\* No pending exception, and the null `const std::string*`.
NoException == [descriptor |-> "none", message |-> <<>>]
NullMessage == <<"nullptr">>
NoCall == [op |-> "none"]
kTransactionAbortErrorDescriptor == "Ldalvik/system/TransactionAbortError;"

\* Instances with instance fields; o1 exists before any transaction, o2 can be
\* allocated while the program runs.
Objs == {"o1", "o2"}
\* Primitive arrays; a1 exists before any transaction, a2 can be allocated.
Arrs == {"a1", "a2"}
\* Class objects.  A and F are classes of the image being compiled, F is
\* finalizable; BootK is a class of the boot image; B and the interface IB are
\* defined in a dex file of the boot image without being in the boot image;
\* SubA extends A, SubB extends B; ImplB implements IA and IB; Lib is defined
\* in a dex file of a library class loader; Err is erroneous; I is a primitive type; the names
\* starting with "[" are array classes.
Classes ==
  { "A", "SubA", "B", "F", "BootK", "SubB", "IA", "IB", "ImplB", "Lib", "Err", "I",
    "[A", "[B", "[[B", "[Err", "[I" }
\* A non-class object that lives in the boot image.
BootObjs == {"bootobj"}
Strings == {"foo", "bar"}
DexCaches == {"dc"}
StringIdx == {0, 1}
ProtoIdx == {0, 1}
Offsets == {8, 12}
\* Instance fields of the class of each object.
FieldsOf(obj) == IF obj = "o1" THEN {8, 12} ELSE {8}

\* gc::Heap::ObjectIsInBootImageSpace, the heap collaborator's membership test.
ObjectIsInBootImageSpace(obj) == obj \in BootObjs \cup {"BootK", "bootdc"}
IsClass(obj) == obj \in Classes
IsFinalizable(klass) == klass = "F"

\* What the class linker knows of each class: mirror::Class::IsArrayClass,
\* GetComponentType, IsPrimitive, IsErroneous, GetDexCache, GetSuperClass and
\* the interfaces of GetIfTable.
IsArrayClass(klass) == klass \in {"[A", "[B", "[[B", "[Err", "[I"}
GetComponentType(klass) ==
  CASE klass = "[A" -> "A"
    [] klass = "[B" -> "B"
    [] klass = "[[B" -> "[B"
    [] klass = "[Err" -> "Err"
    [] klass = "[I" -> "I"
    [] OTHER -> NullRef
IsPrimitive(klass) == klass = "I"
IsErroneous(klass) == klass = "Err"
GetDexCache(klass) ==
  CASE klass \in {"B", "IB", "BootK"} -> "bootdc"
    [] klass = "Lib" -> "libdc"
    [] OTHER -> "dc"
GetSuperClass(klass) ==
  CASE klass = "SubB" -> "B"
    [] klass = "SubA" -> "A"
    [] klass = "BootK" -> NullRef
    [] OTHER -> "BootK"
GetIfTable(klass) == IF klass = "ImplB" THEN <<"IA", "IB">> ELSE <<>>
GetDexFile(dex_cache) ==
  CASE dex_cache = "bootdc" -> "boot.dex"
    [] dex_cache = "libdc" -> "lib.dex"
    [] OTHER -> "app.dex"
\* The static pointer gAppImageDexFiles: the dex files of the app image being
\* compiled, null until SetAppImageDexFiles is called with a vector.
VARIABLE gAppImageDexFiles
nullptr == [is_nullptr |-> TRUE, dex_files |-> {}]
Vector(dex_files) == [is_nullptr |-> FALSE, dex_files |-> dex_files]

\* The lambda can_reference_dex_cache.
can_reference_dex_cache(dex_cache) ==
  IF ObjectIsInBootImageSpace(dex_cache)
  THEN FALSE
  ELSE IF /\ ~gAppImageDexFiles.is_nullptr
          /\ GetDexFile(dex_cache) \notin gAppImageDexFiles.dex_files
       THEN FALSE
       ELSE TRUE

\* The loop over the component types of an array class.
RECURSIVE NonArrayComponentType(_)
NonArrayComponentType(klass) ==
  IF IsArrayClass(GetComponentType(klass))
  THEN NonArrayComponentType(GetComponentType(klass))
  ELSE GetComponentType(klass)

\* The loop over the superclasses outside the boot image.
RECURSIVE CanReferenceSuperclasses(_)
CanReferenceSuperclasses(superclass) ==
  IF ObjectIsInBootImageSpace(superclass)
  THEN TRUE
  ELSE IF ~can_reference_dex_cache(GetDexCache(superclass))
       THEN FALSE
       ELSE CanReferenceSuperclasses(GetSuperClass(superclass))

\* The loop over the interfaces of the IfTable.
CanReferenceIfTable(klass) ==
  \A i \in 1..Len(GetIfTable(klass)) :
    \/ ObjectIsInBootImageSpace(GetIfTable(klass)[i])
    \/ can_reference_dex_cache(GetDexCache(GetIfTable(klass)[i]))

\* AotClassLinker::CanReferenceInBootImageExtensionOrAppImage without the
\* check of the superclasses.
CanReferenceInBootImageExtensionOrAppImage_NoSuperclasses(klass) ==
  IF ObjectIsInBootImageSpace(klass)
  THEN TRUE
  ELSE LET k == IF IsArrayClass(klass) THEN NonArrayComponentType(klass) ELSE klass
       IN IF IsArrayClass(klass) /\ (IsPrimitive(k) \/ IsErroneous(k))
          THEN FALSE
          ELSE IF ~can_reference_dex_cache(GetDexCache(k))
               THEN FALSE
               ELSE CanReferenceIfTable(k)

\* AotClassLinker::CanReferenceInBootImageExtensionOrAppImage.
CanReferenceInBootImageExtensionOrAppImage(klass) ==
  IF ObjectIsInBootImageSpace(klass)
  THEN TRUE
  ELSE LET k == IF IsArrayClass(klass) THEN NonArrayComponentType(klass) ELSE klass
       IN IF IsArrayClass(klass) /\ (IsPrimitive(k) \/ IsErroneous(k))
          THEN FALSE
          ELSE IF ~can_reference_dex_cache(GetDexCache(k))
               THEN FALSE
               ELSE IF ~CanReferenceSuperclasses(GetSuperClass(k))
                    THEN FALSE
                    ELSE CanReferenceIfTable(k)

FieldValueKind ==
  {"kBoolean", "kByte", "kChar", "kShort", "k32Bits", "k64Bits", "kReference"}

\* Values a field of each kind takes in the explored runs, as the typed value
\* the mutator sees (int8_t and int16_t are signed).
FieldValues(kind) ==
  CASE kind = "kBoolean"   -> {0, 1}
    [] kind = "kByte"      -> {0, -128}
    [] kind = "kChar"      -> {0, 65535}
    [] kind = "kShort"     -> {0, -32768}
    [] kind = "k32Bits"    -> {0, 70000}
    [] kind = "k64Bits"    -> {0, 100000}
    [] kind = "kReference" -> {0, 4096}

\* Primitive component types of the explored arrays and their elements.
PrimitiveTypes == {"kPrimByte", "kPrimChar", "kPrimInt"}
ElementValues(type) ==
  CASE type = "kPrimByte" -> {0, -1}
    [] type = "kPrimChar" -> {0, 65535}
    [] type = "kPrimInt"  -> {0, 70000}

\* Type layouts explored: the kind of the instance field at each offset and
\* the component type of the primitive arrays.
Layout(k8, k12, elem) ==
  [field |-> [o \in Offsets |-> IF o = 8 THEN k8 ELSE k12], elem |-> elem,
   kIsDebugBuild |-> TRUE]
\* The same types in a build without debug checks: DCHECK compiles to nothing.
ReleaseBuild(l) == [l EXCEPT !.kIsDebugBuild = FALSE]
FieldLayouts ==
  { <<"kBoolean", "kByte">>, <<"kChar", "kShort">>, <<"k32Bits", "k64Bits">>,
    <<"kReference", "kByte">> }
DebugLayouts == { Layout(f[1], f[2], e) : f \in FieldLayouts, e \in PrimitiveTypes }
Layouts == DebugLayouts \cup { ReleaseBuild(l) : l \in DebugLayouts }
\* Elements of each array: a1 has two, the array allocated while the program
\* runs has one.
IndexesOf(array) == IF array = "a1" THEN {0, 1} ELSE {0}
\* Offsets of the fields declared volatile.
VolatileOffsets == {12}

\* Width in bits of the low part of the 64-bit log word that a typed store
\* of the kind reads back; 0 stands for the full word.
KindBits(kind) ==
  CASE kind \in {"kBoolean", "kByte", "kPrimByte"} -> 8
    [] kind \in {"kChar", "kShort", "kPrimChar"}   -> 16
    [] OTHER                                       -> 0
KindSigned(kind) == kind \in {"kByte", "kShort", "kPrimByte"}

Pow2(n) == IF n = 8 THEN 256 ELSE 65536

\* The uint64_t a typed value is widened to when it is logged.  Only the low
\* KindBits bits are kept in the model: the upper bits of the word are the
\* sign extension of those and are dropped again by the narrowing cast.
ToLogWord(kind, value) ==
  IF KindBits(kind) = 0 THEN value ELSE value % Pow2(KindBits(kind))

\* static_cast of the logged uint64_t back to the type of the kind.
FromLogWord(kind, word) ==
  IF KindBits(kind) = 0
  THEN word
  ELSE LET low == word % Pow2(KindBits(kind))
       IN IF KindSigned(kind) /\ low >= Pow2(KindBits(kind)) \div 2
          THEN low - Pow2(KindBits(kind))
          ELSE low

\* SafeMap::Put / emplace on a map modelled as a function.
MapPut(map, key, value) ==
  [k \in (DOMAIN map) \cup {key} |-> IF k = key THEN value ELSE map[k]]

EmptyMap == [k \in {} |-> 0]

\* ------------------------------------------------------------------- state

VARIABLES
  layout,                           \* types of the fields and array elements
  class_table,                      \* ClassLinker: the status of the classes
  init_frames,                      \* AotClassLinker::InitializeClass calls in progress
  allocated,                        \* objects and arrays that exist
  heap,                             \* instance fields: object -> offset -> value
  arrays,                           \* primitive arrays: array -> index -> value
  strong_interns,                   \* InternTable strong table
  weak_interns,                     \* InternTable weak table
  dex_strings,                      \* resolved DexCache string slots
  dex_method_types,                 \* resolved DexCache method-type slots
  preinitialization_transactions_,  \* AotClassLinker's list, innermost first
  active_transaction_,              \* Runtime's process-wide flag
  exception,                        \* the thread's pending exception
  pc,                               \* position of the compiler-driver thread
  rollback_all,                     \* inside RollbackAllTransactions' loop
  last_call,                        \* the call that just returned, with its result
  hist,                             \* per transaction: state at entry, locations recorded
  mu_,                              \* DexoptChrootSetup: the thread that holds the mutex
  binder_calls,                     \* DexoptChrootSetup: the call each binder thread is in
  directories,                      \* the directories made on the tmpfs filesystems
  proc_mounts,                      \* /proc/mounts: the mount points, in mount order
  supported_filesystems,            \* the function-local static of Mount
  faults,                           \* the calls the operating system has made fail
  processes,                        \* the processes: executable, running, signalled
  clock,                            \* the monotonic clock, in ms
  ensure                            \* the call of EnsureNoProcessInDir and its locals

vars ==
  <<gAppImageDexFiles, layout, class_table, init_frames, allocated, heap, arrays, strong_interns, weak_interns,
    dex_strings, dex_method_types, preinitialization_transactions_, active_transaction_,
    exception, pc, rollback_all, last_call, hist,
    mu_, binder_calls, directories, proc_mounts, supported_filesystems, faults,
    processes, clock, ensure>>

\* The state of the transactions and the state of the host tools.
artVars ==
  <<gAppImageDexFiles, layout, class_table, init_frames, allocated, heap, arrays, strong_interns,
    weak_interns, dex_strings, dex_method_types, preinitialization_transactions_,
    active_transaction_, exception, pc, rollback_all, last_call, hist>>
hostVars ==
  <<mu_, binder_calls, directories, proc_mounts, supported_filesystems, faults,
    processes, clock, ensure>>

\* ------------------------------------------------ the host before any call

\* A path is the sequence of its components: "/mnt/pre_reboot_dexopt/chroot"
\* is <<"mnt", "pre_reboot_dexopt", "chroot">> and "/" is <<>>.
PRE_REBOOT_DEXOPT_DIR == <<"mnt", "pre_reboot_dexopt">>
CHROOT_DIR == PRE_REBOOT_DEXOPT_DIR \o <<"chroot">>
kBindMountTmpDir == PRE_REBOOT_DEXOPT_DIR \o <<"mount_tmp">>

\* An entry of /proc/mounts: the mount point, the filesystem type and what is
\* mounted there (a host directory for a bind mount, a block device, "tmpfs").
FstabEntry(mount_point, fs_type, blk_device) ==
  [mount_point |-> mount_point, fs_type |-> fs_type, blk_device |-> blk_device]

\* The mounts of the init namespace before the service does anything, in
\* mount order.  The system runs from the system partition of slot _a.
HostMounts ==
  <<FstabEntry(<<>>, "erofs", <<"dev", "block", "mapper", "system", "_a">>),
    FstabEntry(<<"dev">>, "bind", <<"dev">>),
    FstabEntry(<<"dev", "pts">>, "bind", <<"dev", "pts">>),
    FstabEntry(<<"proc">>, "bind", <<"proc">>),
    FstabEntry(<<"sys">>, "bind", <<"sys">>),
    FstabEntry(<<"mnt">>, "tmpfs", <<"tmpfs">>),
    FstabEntry(<<"metadata">>, "bind", <<"metadata">>),
    FstabEntry(<<"data">>, "bind", <<"data">>)>>

\* The binder threads of the service, and a thread that is in no call.
BinderThreads == {"binder:1", "binder:2"}
NoThread == "none"
NotInCall == [pc |-> "idle"]

\* No call of EnsureNoProcessInDir is in progress.
NotCalled == [pc |-> "idle"]

\* The directories that init makes on the tmpfs at /mnt.
HostDirs == {PRE_REBOOT_DEXOPT_DIR, <<"mnt", "expand">>}

\* An error message with the value formatted into it.
Message(text, arg) == [text |-> text, arg |-> arg]
NoMessage == Message("", <<>>)

\* The function-local static of Mount: not initialized before the first call
\* of Mount in the process, then the Result of GetSupportedFilesystems.
Uninitialized == [initialized |-> FALSE, ok |-> FALSE, value |-> <<>>, error |-> NoMessage]
ResultOk(value) == [initialized |-> TRUE, ok |-> TRUE, value |-> value, error |-> NoMessage]
ResultError(error) == [initialized |-> TRUE, ok |-> FALSE, value |-> <<>>, error |-> error]

\* The host when neither the service nor the process tools are in use.
HostIdle ==
  /\ mu_ = NoThread
  /\ binder_calls = [t \in BinderThreads |-> NotInCall]
  /\ directories = HostDirs
  /\ proc_mounts = HostMounts
  /\ supported_filesystems = Uninitialized
  /\ faults = 0
  /\ processes = <<>>
  /\ clock = 0
  /\ ensure = NotCalled

memVars == <<allocated, heap, arrays>>
tableVars == <<strong_interns, weak_interns, dex_strings, dex_method_types>>
ctlVars == <<pc, rollback_all>>

\* ------------------------------------------------- Transaction (transaction.h)

\* Transaction::Transaction: empty logs, not aborted, not rolling back.  The
\* top-level transaction is handed the ArenaPool and creates its own
\* ArenaStack; a nested one is handed the ArenaStack of the enclosing one.
Transaction(strict, root, arena_stack, arena_pool) ==
  [ strict_ |-> strict,
    root_ |-> root,
    aborted_ |-> FALSE,
    rolling_back_ |-> FALSE,
    abort_message_ |-> <<>>,
    arena_stack_ |-> (arena_stack = NullRef),
    allocator_ |-> IF arena_stack = NullRef
                   THEN "ArenaStack of " \o arena_pool
                   ELSE arena_stack,
    object_logs_ |-> EmptyMap,
    array_logs_ |-> EmptyMap,
    intern_string_logs_ |-> <<>>,
    resolve_string_logs_ |-> <<>>,
    resolve_method_type_logs_ |-> <<>>,
    last_allocated_object_ |-> NullRef ]

\* Transaction::GetArenaStack: the arena stack the allocator works on.
GetArenaStack(t) == t.allocator_
IsAborted(t) == t.aborted_
IsRollingBack(t) == t.rolling_back_
\* Transaction::IsStrict reading the rolling-back flag in place of strict_.
IsStrict_RollingBack(t) == t.rolling_back_
IsStrict(t) == t.strict_

\* ObjectLog and ArrayLog: the constructor, Size, MarkAsNew*, IsNew*.
ObjectLog == [is_new_object_ |-> FALSE, field_values_ |-> EmptyMap]
ObjectLog_Size(log) == Cardinality(DOMAIN log.field_values_)
IsNewObject(log) == log.is_new_object_
\* ObjectLog::MarkAsNewObject leaving the flag as it is.
MarkAsNewObject_FlagNotSet(log) == log
MarkAsNewObject(log) == [log EXCEPT !.is_new_object_ = TRUE]

ArrayLog == [is_new_array_ |-> FALSE, array_values_ |-> EmptyMap]
ArrayLog_Size(log) == Cardinality(DOMAIN log.array_values_)
IsNewArray(log) == log.is_new_array_
MarkAsNewArray(log) == [log EXCEPT !.is_new_array_ = TRUE]

\* Transaction::GetOrCreateObjectLog, and the same lookup for array_logs_.
GetOrCreateObjectLog(t, obj) ==
  IF obj \in DOMAIN t.object_logs_ THEN t.object_logs_[obj] ELSE ObjectLog
GetOrCreateArrayLog(t, array) ==
  IF array \in DOMAIN t.array_logs_ THEN t.array_logs_[array] ELSE ArrayLog

\* ObjectLog::LogValue replacing the value logged for an offset with that of
\* the latest write.
ObjectLog_LogValue_Overwrite(log, kind, offset, value, is_volatile) ==
  IF IsNewObject(log)
  THEN log
  ELSE [log EXCEPT !.field_values_ =
          MapPut(@, offset, [value |-> value, kind |-> kind, is_volatile |-> is_volatile])]

\* ObjectLog::LogValue: field_values_ maps an offset to one FieldValue; a log
\* flagged as new keeps no records, and the value logged first for an offset
\* is the one that rollback has to restore.
ObjectLog_LogValue(log, kind, offset, value, is_volatile) ==
  IF IsNewObject(log) \/ offset \in DOMAIN log.field_values_
  THEN log
  ELSE [log EXCEPT !.field_values_ =
          MapPut(@, offset, [value |-> value, kind |-> kind, is_volatile |-> is_volatile])]

\* ArrayLog::LogValue: array_values_ maps an index to one 64-bit word.
ArrayLog_LogValue(log, index, value) ==
  IF IsNewArray(log) \/ index \in DOMAIN log.array_values_
  THEN log
  ELSE [log EXCEPT !.array_values_ = MapPut(@, index, value)]

\* Transaction::RecordNewObject / RecordNewArray: a log flagged as new, and
\* the cache of the last allocated object.
Transaction_RecordNewObject(t, obj) ==
  [t EXCEPT !.last_allocated_object_ = obj,
            !.object_logs_ = MapPut(@, obj, MarkAsNewObject(ObjectLog))]
Transaction_RecordNewArray(t, array) ==
  [t EXCEPT !.last_allocated_object_ = array,
            !.array_logs_ = MapPut(@, array, MarkAsNewArray(ArrayLog))]

\* Transaction::ObjectNeedsTransactionRecords / ArrayNeedsTransactionRecords.
ObjectNeedsTransactionRecords(t, obj) ==
  /\ obj # t.last_allocated_object_
  /\ (obj \notin DOMAIN t.object_logs_ \/ ~IsNewObject(t.object_logs_[obj]))
ArrayNeedsTransactionRecords(t, array) ==
  /\ array # t.last_allocated_object_
  /\ (array \notin DOMAIN t.array_logs_ \/ ~IsNewArray(t.array_logs_[array]))

\* Transaction::RecordWriteField{Boolean,Byte,Char,Short,32,64,Reference}:
\* the typed old value is widened to the 64-bit log word and logged under
\* the kind of the call.
Transaction_RecordWriteField(t, kind, obj, field_offset, value, is_volatile) ==
  IF obj = t.last_allocated_object_
  THEN t
  ELSE [t EXCEPT !.object_logs_ =
          MapPut(@, obj, ObjectLog_LogValue(GetOrCreateObjectLog(t, obj), kind,
                                            field_offset, ToLogWord(kind, value),
                                            is_volatile))]

\* Transaction::RecordWriteArray.
Transaction_RecordWriteArray(t, array, index, value) ==
  IF array = t.last_allocated_object_
  THEN t
  ELSE [t EXCEPT !.array_logs_ =
          MapPut(@, array, ArrayLog_LogValue(GetOrCreateArrayLog(t, array), index, value))]

\* Transaction::LogInternedString putting the entry in place of the list.
LogInternedString_Replaces(t, log) ==
  [t EXCEPT !.intern_string_logs_ = <<log>>]

\* Transaction::LogInternedString: the forward list grows at its front, so
\* the newest entry is the first.
LogInternedString(t, log) ==
  [t EXCEPT !.intern_string_logs_ = <<log>> \o @]
InternStringLog(s, kind, op) == [str_ |-> s, string_kind_ |-> kind, string_op_ |-> op]

Transaction_RecordStrongStringInsertion(t, s) ==
  LogInternedString(t, InternStringLog(s, "kStrongString", "kInsert"))
Transaction_RecordWeakStringInsertion(t, s) ==
  LogInternedString(t, InternStringLog(s, "kWeakString", "kInsert"))
Transaction_RecordStrongStringRemoval(t, s) ==
  LogInternedString(t, InternStringLog(s, "kStrongString", "kRemove"))
Transaction_RecordWeakStringRemoval(t, s) ==
  LogInternedString(t, InternStringLog(s, "kWeakString", "kRemove"))

\* Transaction::RecordResolveString / RecordResolveMethodType.
Transaction_RecordResolveString(t, dex_cache, string_idx) ==
  [t EXCEPT !.resolve_string_logs_ =
     <<[dex_cache_ |-> dex_cache, string_idx_ |-> string_idx]>> \o @]
Transaction_RecordResolveMethodType(t, dex_cache, proto_idx) ==
  [t EXCEPT !.resolve_method_type_logs_ =
     <<[dex_cache_ |-> dex_cache, proto_idx_ |-> proto_idx]>> \o @]

\* ObjectLog::Undo / UndoFieldWrite: every logged offset is written back with
\* the store of its kind; `fields` are the fields of the object.
ObjectLog_Undo(log, fields) ==
  [off \in DOMAIN fields |->
     IF off \in DOMAIN log.field_values_
     THEN FromLogWord(log.field_values_[off].kind, log.field_values_[off].value)
     ELSE fields[off]]

\* ArrayLog::Undo / UndoArrayWrite: the width is that of the component type.
ArrayLog_Undo(log, array_type, elements) ==
  [i \in DOMAIN elements |->
     IF i \in DOMAIN log.array_values_
     THEN FromLogWord(array_type, log.array_values_[i])
     ELSE elements[i]]

\* InternStringLog::Undo: the inverse operation on the table of the kind.
InternStringLog_Undo(log, tables) ==
  CASE log.string_op_ = "kInsert" /\ log.string_kind_ = "kStrongString" ->
         [tables EXCEPT !.strong = @ \ {log.str_}]
    [] log.string_op_ = "kInsert" /\ log.string_kind_ = "kWeakString" ->
         [tables EXCEPT !.weak = @ \ {log.str_}]
    [] log.string_op_ = "kRemove" /\ log.string_kind_ = "kStrongString" ->
         [tables EXCEPT !.strong = @ \cup {log.str_}]
    [] log.string_op_ = "kRemove" /\ log.string_kind_ = "kWeakString" ->
         [tables EXCEPT !.weak = @ \cup {log.str_}]

\* Transaction::UndoObjectModifications and the four other Undo* passes, each
\* as the new value of what it writes.
UndoObjectModifications(t, h) ==
  [o \in DOMAIN h |->
     IF o \in DOMAIN t.object_logs_ THEN ObjectLog_Undo(t.object_logs_[o], h[o]) ELSE h[o]]
UndoArrayModifications(t, arrs, array_type) ==
  [a \in DOMAIN arrs |->
     IF a \in DOMAIN t.array_logs_
     THEN ArrayLog_Undo(t.array_logs_[a], array_type, arrs[a])
     ELSE arrs[a]]
RECURSIVE UndoInternLogs(_, _)
UndoInternLogs(logs, tables) ==
  IF logs = <<>>
  THEN tables
  ELSE UndoInternLogs(Tail(logs), InternStringLog_Undo(Head(logs), tables))
UndoInternStringTableModifications(t, tables) ==
  UndoInternLogs(t.intern_string_logs_, tables)
UndoResolveStringModifications(t, slots) ==
  slots \ { <<t.resolve_string_logs_[i].dex_cache_, t.resolve_string_logs_[i].string_idx_>> :
              i \in 1..Len(t.resolve_string_logs_) }
UndoResolveMethodTypeModifications(t, slots) ==
  slots \ { <<t.resolve_method_type_logs_[i].dex_cache_,
              t.resolve_method_type_logs_[i].proto_idx_>> :
              i \in 1..Len(t.resolve_method_type_logs_) }

\* Transaction::Abort: the first abort sets the flag and the message.
Transaction_Abort(t, abort_message) ==
  IF ~t.aborted_
  THEN [t EXCEPT !.aborted_ = TRUE, !.abort_message_ = abort_message]
  ELSE t

GetAbortMessage(t) == t.abort_message_

\* Transaction::ThrowAbortError: the exception left pending on the thread; a
\* null message rethrows with the message stored in the transaction.
Transaction_ThrowAbortError(t, abort_message) ==
  [ descriptor |-> kTransactionAbortErrorDescriptor,
    message |-> IF abort_message = NullMessage THEN GetAbortMessage(t) ELSE abort_message ]

\* mirror::Object::GetClass for the values a reference store can carry.
GetClass(value) ==
  CASE value = "o1" -> "A"
    [] value = "o2" -> "B"
    [] value \in BootObjs -> "BootK"
    [] OTHER -> "A"

\* Transaction::WriteConstraint: no write into the boot image and, in a
\* strict transaction, no write to the static fields of a class other than
\* the one being initialized.
Transaction_WriteConstraint(t, obj) ==
  \/ ObjectIsInBootImageSpace(obj)
  \/ (IsStrict(t) /\ IsClass(obj) /\ obj # t.root_)

\* Transaction::WriteValueConstraint.
Transaction_WriteValueConstraint(t, value) ==
  /\ value # NullRef
  /\ ~CanReferenceInBootImageExtensionOrAppImage(
        IF IsClass(value) THEN value ELSE GetClass(value))

\* Transaction::ReadConstraint: in a strict transaction only the class being
\* initialized may have its static fields read.
Transaction_ReadConstraint(t, obj) ==
  IsStrict(t) /\ obj # t.root_

\* ------------------------------------- AotClassLinker (oat/aot_class_linker.cc)

\* AotClassLinker::GetTransaction answering with the back of the list, the
\* outermost transaction.
GetTransaction_Outermost ==
  preinitialization_transactions_[Len(preinitialization_transactions_)]

\* AotClassLinker::GetTransaction: the front of the list.
GetTransaction == preinitialization_transactions_[1]

\* AotClassLinker::IsActiveTransaction: Runtime's flag.
IsActiveTransaction == active_transaction_

\* AotClassLinker::IsActiveStrictTransactionMode.
IsActiveStrictTransactionMode == IsActiveTransaction /\ IsStrict(GetTransaction)

\* Transaction::VisitRoots, as the roots it offers to the visitor: the root
\* class, the objects and arrays that have a log, the non-null references
\* held as old values of reference fields, the strings of the intern-table
\* log and the dex caches of the two resolution logs.
Transaction_VisitRoots(t) ==
  [ classes |-> IF t.root_ = NullRef THEN {} ELSE {t.root_},
    objects |-> DOMAIN t.object_logs_,
    references |->
      { t.object_logs_[obj].field_values_[off].value :
          <<obj, off>> \in
            { p \in (DOMAIN t.object_logs_) \X Offsets :
                /\ p[2] \in DOMAIN t.object_logs_[p[1]].field_values_
                /\ t.object_logs_[p[1]].field_values_[p[2]].kind = "kReference"
                /\ t.object_logs_[p[1]].field_values_[p[2]].value # 0 } },
    arrays |-> DOMAIN t.array_logs_,
    strings |->
      { t.intern_string_logs_[i].str_ : i \in 1..Len(t.intern_string_logs_) },
    dex_caches |->
      { t.resolve_string_logs_[i].dex_cache_ : i \in 1..Len(t.resolve_string_logs_) }
        \cup { t.resolve_method_type_logs_[i].dex_cache_ :
                 i \in 1..Len(t.resolve_method_type_logs_) } ]

RootKinds == {"classes", "objects", "references", "arrays", "strings", "dex_caches"}

\* AotClassLinker::VisitTransactionRoots visiting the innermost transaction
\* only.
VisitTransactionRoots_InnermostOnly ==
  IF preinitialization_transactions_ = <<>>
  THEN [kind \in RootKinds |-> {}]
  ELSE Transaction_VisitRoots(GetTransaction)

\* AotClassLinker::VisitTransactionRoots: every transaction of the list is
\* visited.
VisitTransactionRoots ==
  [ kind \in RootKinds |->
      UNION { Transaction_VisitRoots(preinitialization_transactions_[i])[kind] :
                i \in 1..Len(preinitialization_transactions_) } ]

\* AotClassLinker::IsTransactionAborted reading the rolling-back flag of the
\* innermost transaction in place of its aborted flag.
IsTransactionAborted_RollingBack == IsRollingBack(GetTransaction)

\* AotClassLinker::IsTransactionAborted.
IsTransactionAborted == IsAborted(GetTransaction)

\* The list with its front transaction replaced.
WithFront(t) == [preinitialization_transactions_ EXCEPT ![1] = t]

\* AotClassLinker::RecordWriteFieldByte forwarding to the Boolean recorder of
\* the transaction.
RecordWriteField_WrongKind(kind, obj, field_offset, value, is_volatile) ==
  WithFront(Transaction_RecordWriteField(GetTransaction,
                                         IF kind = "kByte" THEN "kBoolean" ELSE kind,
                                         obj, field_offset, value, is_volatile))

\* AotClassLinker::RecordWriteArray forwarding index and value swapped.
RecordWriteArray_Swapped(array, index, value) ==
  WithFront(Transaction_RecordWriteArray(GetTransaction, array, value, index))

\* AotClassLinker::RecordWriteField*, RecordWriteArray, Record*String*,
\* RecordResolve*: each forwards to the front transaction.
RecordWriteField(kind, obj, field_offset, value, is_volatile) ==
  WithFront(Transaction_RecordWriteField(GetTransaction, kind, obj, field_offset,
                                         value, is_volatile))
RecordWriteArray(array, index, value) ==
  WithFront(Transaction_RecordWriteArray(GetTransaction, array, index, value))
RecordStrongStringInsertion(s) ==
  WithFront(Transaction_RecordStrongStringInsertion(GetTransaction, s))
RecordWeakStringInsertion(s) ==
  WithFront(Transaction_RecordWeakStringInsertion(GetTransaction, s))
\* AotClassLinker::RecordStrongStringRemoval forwarding to the recorder of the
\* weak table.
RecordStrongStringRemoval_AsWeak(s) ==
  WithFront(Transaction_RecordWeakStringRemoval(GetTransaction, s))

RecordStrongStringRemoval(s) ==
  WithFront(Transaction_RecordStrongStringRemoval(GetTransaction, s))
RecordWeakStringRemoval(s) ==
  WithFront(Transaction_RecordWeakStringRemoval(GetTransaction, s))
RecordResolveString(dex_cache, string_idx) ==
  WithFront(Transaction_RecordResolveString(GetTransaction, dex_cache, string_idx))
\* AotClassLinker::RecordResolveMethodType forwarding to the recorder of
\* string resolutions.
RecordResolveMethodType_AsString(dex_cache, proto_idx) ==
  WithFront(Transaction_RecordResolveString(GetTransaction, dex_cache, proto_idx))

RecordResolveMethodType(dex_cache, proto_idx) ==
  WithFront(Transaction_RecordResolveMethodType(GetTransaction, dex_cache, proto_idx))

\* AotClassLinker::AbortTransactionV throwing the error without aborting the
\* transaction.
AbortTransactionV_ThrowOnly(abort_message) ==
  [ transactions |-> preinitialization_transactions_,
    exception |-> Transaction_ThrowAbortError(GetTransaction, abort_message) ]

\* AotClassLinker::AbortTransactionV aborting every transaction of the list.
AbortTransactionV_AbortsAll(abort_message) ==
  LET aborted == [i \in 1..Len(preinitialization_transactions_) |->
                    Transaction_Abort(preinitialization_transactions_[i], abort_message)]
  IN [ transactions |-> aborted,
       exception |-> Transaction_ThrowAbortError(aborted[1], abort_message) ]

\* AotClassLinker::AbortTransactionV (and AbortTransactionF, which formats
\* and forwards): the front transaction is aborted with the message, then
\* the error carrying that message is thrown.  The result is the new list
\* and the exception left pending.
AbortTransactionV(abort_message) ==
  LET aborted == WithFront(Transaction_Abort(GetTransaction, abort_message))
  IN [ transactions |-> aborted,
       exception |-> Transaction_ThrowAbortError(aborted[1], abort_message) ]

\* AotClassLinker::ThrowTransactionAbortError passing an empty message of its
\* own instead of none.
ThrowTransactionAbortError_EmptyMessage ==
  Transaction_ThrowAbortError(GetTransaction, <<>>)

\* AotClassLinker::ThrowTransactionAbortError: rethrow with the stored message.
ThrowTransactionAbortError ==
  Transaction_ThrowAbortError(GetTransaction, NullMessage)

\* mirror::Object::PrettyTypeOf / mirror::Class::PrettyDescriptor.
PrettyDescriptor(klass) == klass
PrettyTypeOf(obj) ==
  IF IsClass(obj) THEN "java.lang.Class<" \o obj \o ">" ELSE PrettyDescriptor(GetClass(obj))

\* The messages the Transaction*Constraint operations format, as the pieces
\* the format string joins.
\* TransactionWriteConstraint with the test for the extra words inverted.
WriteConstraintMessage_ExtraInverted(obj) ==
  <<"Can't set fields of ",
    IF ObjectIsInBootImageSpace(obj) THEN "" ELSE "boot image ",
    PrettyTypeOf(obj)>>

WriteConstraintMessage(obj) ==
  <<"Can't set fields of ",
    IF ObjectIsInBootImageSpace(obj) THEN "boot image " ELSE "",
    PrettyTypeOf(obj)>>
WriteValueConstraintMessage(value) ==
  <<"Can't store reference to ",
    IF IsClass(value) THEN "class" ELSE "instance of",
    " ",
    PrettyDescriptor(IF IsClass(value) THEN value ELSE GetClass(value))>>
ReadConstraintMessage(obj) ==
  <<"Can't read static fields of ", PrettyTypeOf(obj),
    " since it does not belong to clinit's class.">>
AllocationConstraintMessage(klass) ==
  <<"Allocating finalizable object in transaction: ", PrettyDescriptor(klass)>>

\* Messages of other callers of AbortTransactionF.
CallerMessages ==
  { <<"Can't resolve type within transaction.">>,
    <<"Can't initialize ", "A", " because it is defined in a boot image dex file.">> }

\* ----------------------------------------------------------------- history

\* What a rollback has to bring back: the mutable state at the entry of a
\* transaction.
Snapshot ==
  [ allocated |-> allocated, heap |-> heap, arrays |-> arrays,
    strong |-> strong_interns, weak |-> weak_interns,
    dex_strings |-> dex_strings, dex_method_types |-> dex_method_types ]

\* History of a transaction: the state at its entry and the enclosing
\* transactions as they were then, the locations recorded in it, whether a
\* nested transaction exited and kept its changes, the classes whose nested
\* initialization transaction exited that way, and the message of its first
\* abort.
NewHist ==
  [ entry |-> Snapshot, enclosing |-> preinitialization_transactions_,
    written |-> {}, nested_exit |-> FALSE, initialized |-> {}, first_abort |-> NullMessage ]

HistRecord(loc) ==
  IF IsActiveTransaction
  THEN [hist EXCEPT ![1].written = @ \cup {loc}]
  ELSE hist

HistAbort(abort_message) ==
  IF hist[1].first_abort = NullMessage
  THEN [hist EXCEPT ![1].first_abort = abort_message]
  ELSE hist

\* Once a nested transaction has exited and kept its changes, the state at
\* the entry of the enclosing transaction is no longer what its rollback
\* brings back, and it is dropped from the history.
HistPop(kept) ==
  IF Len(hist) > 1 /\ kept
  THEN [Tail(hist) EXCEPT ![1].nested_exit = TRUE, ![1].entry = NullRef,
                          ![1].initialized =
                            @ \cup hist[1].initialized \cup {GetTransaction.root_}]
  ELSE Tail(hist)

\* ------------------------------------------------------------- class status

\* The classes whose initialization is followed; the status of a class is
\* the field at offset 8 of its class object.
StatusClasses == {"A", "SubA", "B", "F"}

\* ClassLinker::MakeInitializedClassesVisiblyInitialized(self, wait = true):
\* every initialized class becomes visibly initialized; the call notes how
\* many transactions were entered and what the process-wide flag was when it
\* ran.
MakeInitializedClassesVisiblyInitialized(table) ==
  [status |-> [klass \in StatusClasses |->
                 IF table.status[klass] = "kInitialized"
                 THEN "kVisiblyInitialized" ELSE table.status[klass]],
   made_visible |-> [called |-> TRUE,
                     depth |-> Len(preinitialization_transactions_),
                     flag |-> active_transaction_]]

\* The statuses after UndoObjectModifications of transaction t: the status
\* word logged for a class is stored back.
UndoStatusModifications(t, table) ==
  [table EXCEPT !.status =
     [klass \in StatusClasses |->
        IF klass \in DOMAIN t.object_logs_
        THEN t.object_logs_[klass].field_values_[8].value
        ELSE @[klass]]]

\* -------------------------------------------------------------------- Init

RuntimeInit ==
  /\ gAppImageDexFiles = nullptr
  /\ layout \in Layouts
  /\ class_table = [status |-> [klass \in StatusClasses |-> "kResolved"],
                    made_visible |-> [called |-> FALSE, depth |-> 0, flag |-> FALSE]]
  /\ init_frames = <<>>
  /\ allocated = {"o1", "a1"}
  /\ heap = [o \in Objs |-> [off \in FieldsOf(o) |-> 0]]
  /\ arrays = [a \in Arrs |-> [i \in IndexesOf(a) |-> 0]]
  /\ strong_interns = {}
  /\ weak_interns = {}
  /\ dex_strings = {}
  /\ dex_method_types = {}
  /\ preinitialization_transactions_ = <<>>
  /\ active_transaction_ = FALSE
  /\ exception = NoException
  /\ pc = "idle"
  /\ rollback_all = FALSE
  /\ last_call = NoCall
  /\ hist = <<>>

\* The runtime after construction on a host where the tools are not in use.
Init == RuntimeInit /\ HostIdle

\* --------------------------------------------------- transaction lifecycle

\* AotClassLinker::EnterTransactionMode passing the runtime arena pool to
\* every transaction, nested ones included.
EnterTransactionMode_OwnArena(strict, root) ==
  /\ pc = "idle"
  /\ Len(preinitialization_transactions_) < MaxDepth
  /\ preinitialization_transactions_' =
       <<Transaction(strict, root, NullRef, "runtime_arena_pool")>>
         \o preinitialization_transactions_
  /\ class_table' = IF preinitialization_transactions_ = <<>>
                    THEN MakeInitializedClassesVisiblyInitialized(class_table)
                    ELSE class_table
  /\ active_transaction_' = TRUE
  /\ hist' = <<NewHist>> \o hist
  /\ last_call' = NoCall
  /\ UNCHANGED <<hostVars, gAppImageDexFiles, layout, init_frames, memVars, tableVars, exception, ctlVars>>

\* AotClassLinker::EnterTransactionMode making the initialized classes
\* visibly initialized after the transaction is pushed and the flag is set,
\* whatever the depth.
EnterTransactionMode_VisibleAfterPush(strict, root) ==
  /\ pc = "idle"
  /\ Len(preinitialization_transactions_) < MaxDepth
  /\ LET arena_pool == IF preinitialization_transactions_ = <<>>
                       THEN "runtime_arena_pool" ELSE NullRef
         arena_stack == IF preinitialization_transactions_ = <<>>
                        THEN NullRef
                        ELSE GetArenaStack(preinitialization_transactions_[1])
     IN preinitialization_transactions_' =
          <<Transaction(strict, root, arena_stack, arena_pool)>>
            \o preinitialization_transactions_
  /\ class_table' =
       [MakeInitializedClassesVisiblyInitialized(class_table)
          EXCEPT !.made_visible.depth = Len(preinitialization_transactions_) + 1,
                 !.made_visible.flag = TRUE]
  /\ active_transaction_' = TRUE
  /\ hist' = <<NewHist>> \o hist
  /\ last_call' = NoCall
  /\ UNCHANGED <<hostVars, gAppImageDexFiles, layout, init_frames, memVars, tableVars, exception, ctlVars>>

\* AotClassLinker::SetAppImageDexFiles.
SetAppImageDexFiles(app_image_dex_files) ==
  /\ pc = "idle"
  /\ gAppImageDexFiles' = app_image_dex_files
  /\ last_call' = NoCall
  /\ UNCHANGED <<hostVars, layout, class_table, init_frames, memVars, tableVars,
                 preinitialization_transactions_, active_transaction_, exception,
                 ctlVars, hist>>

\* AotClassLinker::EnterTransactionMode from the call to emplace_front.  With
\* the list empty the thread goes to kNative (ScopedThreadSuspension) and
\* waits in MakeInitializedClassesVisiblyInitialized; other threads and the
\* collector run before it goes on, with the list still empty and the flag
\* false.  The call in progress keeps strict and root.  With a transaction in
\* the list there is no suspension: the new transaction takes the arena
\* stack of the front one, is put in front and the flag is set.
EnterTransactionMode(strict, root) ==
  /\ pc = "idle"
  /\ Len(preinitialization_transactions_) < MaxDepth
  /\ IF preinitialization_transactions_ = <<>>
     THEN /\ class_table' = MakeInitializedClassesVisiblyInitialized(class_table)
          /\ pc' = "EnterTransactionMode"
          /\ last_call' = [op |-> "EnterTransactionMode", strict |-> strict,
                           root |-> root]
          /\ UNCHANGED <<preinitialization_transactions_, active_transaction_, hist>>
     ELSE /\ preinitialization_transactions_' =
               <<Transaction(strict, root,
                             GetArenaStack(preinitialization_transactions_[1]), NullRef)>>
                 \o preinitialization_transactions_
          /\ active_transaction_' = TRUE
          /\ hist' = <<NewHist>> \o hist
          /\ last_call' = NoCall
          /\ UNCHANGED <<class_table, pc>>
  /\ UNCHANGED <<hostVars, gAppImageDexFiles, layout, init_frames, memVars, tableVars, exception,
                 rollback_all>>

\* AotClassLinker::EnterTransactionMode after the suspension: the top-level
\* transaction gets the arena pool of the runtime, is put in front of the
\* list, and Runtime::SetActiveTransaction sets the flag.
EnterTransactionModeEmplace ==
  /\ pc = "EnterTransactionMode"
  /\ preinitialization_transactions_' =
       <<Transaction(last_call.strict, last_call.root, NullRef, "runtime_arena_pool")>>
         \o preinitialization_transactions_
  /\ active_transaction_' = TRUE
  /\ hist' = <<NewHist>> \o hist
  /\ pc' = "idle"
  /\ last_call' = NoCall
  /\ UNCHANGED <<hostVars, gAppImageDexFiles, layout, init_frames, class_table, memVars, tableVars,
                 exception, rollback_all>>

\* AotClassLinker::ExitTransactionMode undoing the object and array writes of
\* the transaction it pops, as a rollback would.
ExitTransactionMode_Undoes ==
  /\ pc = "idle"
  /\ IsActiveTransaction
  /\ heap' = UndoObjectModifications(GetTransaction, heap)
  /\ arrays' = UndoArrayModifications(GetTransaction, arrays, layout.elem)
  /\ preinitialization_transactions_' = Tail(preinitialization_transactions_)
  /\ active_transaction_' =
       IF Tail(preinitialization_transactions_) = <<>> THEN FALSE ELSE active_transaction_
  /\ hist' = HistPop(TRUE)
  /\ last_call' = NoCall
  /\ UNCHANGED <<hostVars, gAppImageDexFiles, layout, init_frames, class_table, allocated, tableVars,
                 exception, ctlVars>>

\* AotClassLinker::ExitTransactionMode leaving the process-wide flag set when
\* the last transaction is popped.
ExitTransactionMode_KeepsFlag ==
  /\ pc = "idle"
  /\ IsActiveTransaction
  /\ preinitialization_transactions_' = Tail(preinitialization_transactions_)
  /\ hist' = HistPop(TRUE)
  /\ last_call' = NoCall
  /\ UNCHANGED <<hostVars, gAppImageDexFiles, layout, init_frames, class_table, memVars, tableVars,
                 active_transaction_, exception, ctlVars>>

\* AotClassLinker::ExitTransactionMode handing the field records of the
\* transaction it pops to the enclosing transaction, where the enclosing one
\* has none for the offset.
ExitTransactionMode_TransfersLogs ==
  /\ pc = "idle"
  /\ IsActiveTransaction
  /\ preinitialization_transactions_' =
       IF Len(preinitialization_transactions_) = 1
       THEN <<>>
       ELSE LET inner == preinitialization_transactions_[1]
                outer == preinitialization_transactions_[2]
                merged ==
                  [obj \in DOMAIN inner.object_logs_ \cup DOMAIN outer.object_logs_ |->
                     IF obj \notin DOMAIN inner.object_logs_
                     THEN outer.object_logs_[obj]
                     ELSE IF obj \notin DOMAIN outer.object_logs_
                          THEN inner.object_logs_[obj]
                          ELSE [outer.object_logs_[obj] EXCEPT !.field_values_ =
                                  [off \in DOMAIN inner.object_logs_[obj].field_values_
                                             \cup DOMAIN @ |->
                                     IF off \in DOMAIN @
                                     THEN @[off]
                                     ELSE inner.object_logs_[obj].field_values_[off]]]]
            IN <<[outer EXCEPT !.object_logs_ = merged]>>
                 \o Tail(Tail(preinitialization_transactions_))
  /\ active_transaction_' =
       IF Tail(preinitialization_transactions_) = <<>> THEN FALSE ELSE active_transaction_
  /\ hist' = HistPop(TRUE)
  /\ last_call' = NoCall
  /\ UNCHANGED <<hostVars, gAppImageDexFiles, layout, init_frames, class_table, memVars, tableVars,
                 exception, ctlVars>>

\* AotClassLinker::ExitTransactionMode.
ExitTransactionMode ==
  /\ pc = "idle"
  /\ IsActiveTransaction
  /\ preinitialization_transactions_' = Tail(preinitialization_transactions_)
  /\ active_transaction_' =
       IF Tail(preinitialization_transactions_) = <<>> THEN FALSE ELSE active_transaction_
  /\ hist' = HistPop(TRUE)
  /\ last_call' = NoCall
  /\ UNCHANGED <<hostVars, gAppImageDexFiles, layout, init_frames, class_table, memVars, tableVars,
                 exception, ctlVars>>

\* AotClassLinker::RollbackAndExitTransactionMode calling Rollback without
\* ClearActiveTransaction.
RollbackAndExitTransactionMode_FlagKept ==
  /\ pc = "idle"
  /\ IsActiveTransaction
  /\ pc' = "Rollback"
  /\ last_call' = NoCall
  /\ UNCHANGED <<hostVars, gAppImageDexFiles, layout, init_frames, class_table, memVars, tableVars,
                 preinitialization_transactions_,
                 active_transaction_, exception, rollback_all, hist>>

\* AotClassLinker::RollbackAndExitTransactionMode, up to the call of
\* Rollback: the process-wide flag is cleared.
RollbackAndExitTransactionMode ==
  /\ pc = "idle"
  /\ IsActiveTransaction
  /\ active_transaction_' = FALSE
  /\ pc' = "Rollback"
  /\ last_call' = NoCall
  /\ UNCHANGED <<hostVars, gAppImageDexFiles, layout, init_frames, class_table, memVars, tableVars,
                 preinitialization_transactions_,
                 exception, rollback_all, hist>>

\* AotClassLinker::RollbackAllTransactions: the call, and each evaluation of
\* the loop condition; a round of the loop is a RollbackAndExitTransactionMode.
RollbackAllTransactions ==
  /\ pc = "idle"
  /\ pc' = "RollbackAllTransactions"
  /\ rollback_all' = TRUE
  /\ last_call' = NoCall
  /\ UNCHANGED <<hostVars, gAppImageDexFiles, layout, init_frames, class_table, memVars, tableVars,
                 preinitialization_transactions_,
                 active_transaction_, exception, hist>>

\* The loop of RollbackAllTransactions calling ExitTransactionMode in place of
\* RollbackAndExitTransactionMode.
RollbackAllLoop_ExitsOnly ==
  /\ pc = "RollbackAllTransactions"
  /\ IF IsActiveTransaction
     THEN /\ preinitialization_transactions_' = Tail(preinitialization_transactions_)
          /\ active_transaction_' = (Tail(preinitialization_transactions_) # <<>>)
          /\ hist' = HistPop(TRUE)
          /\ UNCHANGED <<pc, rollback_all>>
     ELSE /\ pc' = "idle"
          /\ rollback_all' = FALSE
          /\ UNCHANGED <<active_transaction_, preinitialization_transactions_, hist>>
  /\ UNCHANGED <<hostVars, gAppImageDexFiles, layout, init_frames, class_table, memVars, tableVars,
                 exception, last_call>>

RollbackAllLoop ==
  /\ pc = "RollbackAllTransactions"
  /\ IF IsActiveTransaction
     THEN /\ active_transaction_' = FALSE
          /\ pc' = "Rollback"
          /\ UNCHANGED rollback_all
     ELSE /\ pc' = "idle"
          /\ rollback_all' = FALSE
          /\ UNCHANGED active_transaction_
  /\ UNCHANGED <<hostVars, gAppImageDexFiles, layout, init_frames, class_table, memVars, tableVars,
                 preinitialization_transactions_,
                 exception, last_call, hist>>

\* Transaction::Rollback starting with the object logs and leaving out the
\* array logs.
Rollback_ObjectsFirst ==
  /\ pc = "Rollback"
  /\ preinitialization_transactions_' =
       WithFront([GetTransaction EXCEPT !.rolling_back_ = TRUE])
  /\ pc' = "UndoObjectModifications"
  /\ UNCHANGED <<hostVars, gAppImageDexFiles, layout, init_frames, class_table, memVars, tableVars,
                 active_transaction_, exception,
                 rollback_all, last_call, hist>>

\* Transaction::Rollback, its entry: the transaction is marked rolling back.
Rollback ==
  /\ pc = "Rollback"
  /\ preinitialization_transactions_' =
       WithFront([GetTransaction EXCEPT !.rolling_back_ = TRUE])
  /\ pc' = "UndoArrayModifications"
  /\ UNCHANGED <<hostVars, gAppImageDexFiles, layout, init_frames, class_table, memVars, tableVars,
                 active_transaction_, exception,
                 rollback_all, last_call, hist>>

\* Transaction::Rollback, the five undo passes in their order; each pass
\* drains its log.
RollbackUndoArrays ==
  /\ pc = "UndoArrayModifications"
  /\ arrays' = UndoArrayModifications(GetTransaction, arrays, layout.elem)
  /\ preinitialization_transactions_' =
       WithFront([GetTransaction EXCEPT !.array_logs_ = EmptyMap])
  /\ pc' = "UndoObjectModifications"
  /\ UNCHANGED <<hostVars, gAppImageDexFiles, layout, init_frames, class_table, allocated, heap, tableVars,
                 active_transaction_, exception,
                 rollback_all, last_call, hist>>

RollbackUndoObjects ==
  /\ pc = "UndoObjectModifications"
  /\ heap' = UndoObjectModifications(GetTransaction, heap)
  /\ class_table' = UndoStatusModifications(GetTransaction, class_table)
  /\ preinitialization_transactions_' =
       WithFront([GetTransaction EXCEPT !.object_logs_ = EmptyMap])
  /\ pc' = "UndoInternStringTableModifications"
  /\ UNCHANGED <<hostVars, gAppImageDexFiles, layout, init_frames, allocated, arrays, tableVars,
                 active_transaction_, exception,
                 rollback_all, last_call, hist>>

RollbackUndoInternStrings ==
  /\ pc = "UndoInternStringTableModifications"
  /\ LET tables == UndoInternStringTableModifications(
                     GetTransaction, [strong |-> strong_interns, weak |-> weak_interns])
     IN /\ strong_interns' = tables.strong
        /\ weak_interns' = tables.weak
  /\ preinitialization_transactions_' =
       WithFront([GetTransaction EXCEPT !.intern_string_logs_ = <<>>])
  /\ pc' = "UndoResolveStringModifications"
  /\ UNCHANGED <<hostVars, gAppImageDexFiles, layout, init_frames, class_table, memVars, dex_strings,
                 dex_method_types, active_transaction_,
                 exception, rollback_all, last_call, hist>>

RollbackUndoResolveStrings ==
  /\ pc = "UndoResolveStringModifications"
  /\ dex_strings' = UndoResolveStringModifications(GetTransaction, dex_strings)
  /\ preinitialization_transactions_' =
       WithFront([GetTransaction EXCEPT !.resolve_string_logs_ = <<>>])
  /\ pc' = "UndoResolveMethodTypeModifications"
  /\ UNCHANGED <<hostVars, gAppImageDexFiles, layout, init_frames, class_table, memVars, strong_interns,
                 weak_interns, dex_method_types,
                 active_transaction_, exception, rollback_all, last_call, hist>>

RollbackUndoResolveMethodTypes ==
  /\ pc = "UndoResolveMethodTypeModifications"
  /\ dex_method_types' = UndoResolveMethodTypeModifications(GetTransaction, dex_method_types)
  /\ preinitialization_transactions_' =
       WithFront([GetTransaction EXCEPT !.resolve_method_type_logs_ = <<>>])
  /\ pc' = "pop_front"
  /\ UNCHANGED <<hostVars, gAppImageDexFiles, layout, init_frames, class_table, memVars, strong_interns,
                 weak_interns, dex_strings,
                 active_transaction_, exception, rollback_all, last_call, hist>>

\* AotClassLinker::RollbackAndExitTransactionMode after Rollback returned,
\* popping the transaction without setting the flag again.
RollbackPopFront_FlagNotSet ==
  /\ pc = "pop_front"
  /\ preinitialization_transactions_' = Tail(preinitialization_transactions_)
  /\ hist' = HistPop(hist[1].nested_exit)
  /\ pc' = IF rollback_all THEN "RollbackAllTransactions" ELSE "idle"
  /\ UNCHANGED <<hostVars, gAppImageDexFiles, layout, init_frames, class_table, memVars, tableVars,
                 active_transaction_, exception,
                 rollback_all, last_call>>

\* AotClassLinker::RollbackAndExitTransactionMode after Rollback returned:
\* the transaction is popped and the flag is set again if one is left.
RollbackPopFront ==
  /\ pc = "pop_front"
  /\ preinitialization_transactions_' = Tail(preinitialization_transactions_)
  /\ hist' = HistPop(hist[1].nested_exit)
  /\ active_transaction_' =
       IF Tail(preinitialization_transactions_) # <<>> THEN TRUE ELSE active_transaction_
  /\ pc' = IF rollback_all THEN "RollbackAllTransactions" ELSE "idle"
  /\ UNCHANGED <<hostVars, gAppImageDexFiles, layout, init_frames, class_table, memVars, tableVars,
                 exception, rollback_all, last_call>>

\* ------------------------------------------------- mutations and their records

\* A field store of the interpreter: with a transaction active the old value
\* is recorded through AotClassLinker::RecordWriteField* of the field's kind,
\* then the field is written.
SetField(obj, field_offset, value) ==
  /\ pc = "idle"
  /\ obj \in Objs \cap allocated
  /\ value \in FieldValues(layout.field[field_offset])
  /\ preinitialization_transactions_' =
       IF IsActiveTransaction
       THEN RecordWriteField(layout.field[field_offset], obj, field_offset,
                             heap[obj][field_offset], field_offset \in VolatileOffsets)
       ELSE preinitialization_transactions_
  /\ heap' = [heap EXCEPT ![obj][field_offset] = value]
  /\ hist' = HistRecord(<<"field", obj, field_offset>>)
  /\ last_call' = NoCall
  /\ UNCHANGED <<hostVars, gAppImageDexFiles, layout, init_frames, class_table, allocated, arrays,
                 tableVars, active_transaction_, exception,
                 ctlVars>>

\* An allocation: with a transaction active the new object is recorded with
\* Transaction::RecordNewObject.
AllocObject(obj) ==
  /\ pc = "idle"
  /\ obj \in Objs \ allocated
  /\ allocated' = allocated \cup {obj}
  /\ preinitialization_transactions_' =
       IF IsActiveTransaction
       THEN WithFront(Transaction_RecordNewObject(GetTransaction, obj))
       ELSE preinitialization_transactions_
  /\ hist' = HistRecord(<<"new", obj>>)
  /\ last_call' = NoCall
  /\ UNCHANGED <<hostVars, gAppImageDexFiles, layout, init_frames, class_table, heap, arrays, tableVars,
                 active_transaction_, exception,
                 ctlVars>>

\* An array store: the old element is recorded as a 64-bit word through
\* AotClassLinker::RecordWriteArray, then the element is written.
SetArrayElement(array, index, value) ==
  /\ pc = "idle"
  /\ array \in Arrs \cap allocated
  /\ value \in ElementValues(layout.elem)
  /\ preinitialization_transactions_' =
       IF IsActiveTransaction
       THEN RecordWriteArray(array, index, ToLogWord(layout.elem, arrays[array][index]))
       ELSE preinitialization_transactions_
  /\ arrays' = [arrays EXCEPT ![array][index] = value]
  /\ hist' = HistRecord(<<"element", array, index>>)
  /\ last_call' = NoCall
  /\ UNCHANGED <<hostVars, gAppImageDexFiles, layout, init_frames, class_table, allocated, heap, tableVars,
                 active_transaction_, exception,
                 ctlVars>>

\* An array allocation, recorded with Transaction::RecordNewArray.
AllocArray(array) ==
  /\ pc = "idle"
  /\ array \in Arrs \ allocated
  /\ allocated' = allocated \cup {array}
  /\ preinitialization_transactions_' =
       IF IsActiveTransaction
       THEN WithFront(Transaction_RecordNewArray(GetTransaction, array))
       ELSE preinitialization_transactions_
  /\ hist' = HistRecord(<<"new", array>>)
  /\ last_call' = NoCall
  /\ UNCHANGED <<hostVars, gAppImageDexFiles, layout, init_frames, class_table, heap, arrays, tableVars,
                 active_transaction_, exception,
                 ctlVars>>

\* The intern-string log of the front transaction has room (the bound of the
\* exploration).
InternLogHasRoom ==
  IsActiveTransaction => Len(GetTransaction.intern_string_logs_) < MaxInternLog

\* InternTable insertions and removals; the table calls the Record*String*
\* operation of the change it makes when a transaction is active.  A string
\* is inserted only when neither table holds it.
InsertStrong(s) ==
  /\ pc = "idle"
  /\ s \notin strong_interns \cup weak_interns
  /\ InternLogHasRoom
  /\ strong_interns' = strong_interns \cup {s}
  /\ preinitialization_transactions_' =
       IF IsActiveTransaction THEN RecordStrongStringInsertion(s)
       ELSE preinitialization_transactions_
  /\ hist' = HistRecord(<<"strong", s>>)
  /\ last_call' = NoCall
  /\ UNCHANGED <<hostVars, gAppImageDexFiles, layout, init_frames, class_table, memVars, weak_interns,
                 dex_strings, dex_method_types,
                 active_transaction_, exception, ctlVars>>

InsertWeak(s) ==
  /\ pc = "idle"
  /\ s \notin strong_interns \cup weak_interns
  /\ InternLogHasRoom
  /\ weak_interns' = weak_interns \cup {s}
  /\ preinitialization_transactions_' =
       IF IsActiveTransaction THEN RecordWeakStringInsertion(s)
       ELSE preinitialization_transactions_
  /\ hist' = HistRecord(<<"weak", s>>)
  /\ last_call' = NoCall
  /\ UNCHANGED <<hostVars, gAppImageDexFiles, layout, init_frames, class_table, memVars, strong_interns,
                 dex_strings, dex_method_types,
                 active_transaction_, exception, ctlVars>>

RemoveStrong(s) ==
  /\ pc = "idle"
  /\ s \in strong_interns
  /\ InternLogHasRoom
  /\ strong_interns' = strong_interns \ {s}
  /\ preinitialization_transactions_' =
       IF IsActiveTransaction THEN RecordStrongStringRemoval(s)
       ELSE preinitialization_transactions_
  /\ hist' = HistRecord(<<"strong", s>>)
  /\ last_call' = NoCall
  /\ UNCHANGED <<hostVars, gAppImageDexFiles, layout, init_frames, class_table, memVars, weak_interns,
                 dex_strings, dex_method_types,
                 active_transaction_, exception, ctlVars>>

RemoveWeak(s) ==
  /\ pc = "idle"
  /\ s \in weak_interns
  /\ InternLogHasRoom
  /\ weak_interns' = weak_interns \ {s}
  /\ preinitialization_transactions_' =
       IF IsActiveTransaction THEN RecordWeakStringRemoval(s)
       ELSE preinitialization_transactions_
  /\ hist' = HistRecord(<<"weak", s>>)
  /\ last_call' = NoCall
  /\ UNCHANGED <<hostVars, gAppImageDexFiles, layout, init_frames, class_table, memVars, strong_interns,
                 dex_strings, dex_method_types,
                 active_transaction_, exception, ctlVars>>

\* Resolution of a string or a method type into an unresolved dex-cache slot.
ResolveString(dex_cache, string_idx) ==
  /\ pc = "idle"
  /\ <<dex_cache, string_idx>> \notin dex_strings
  /\ dex_strings' = dex_strings \cup {<<dex_cache, string_idx>>}
  /\ preinitialization_transactions_' =
       IF IsActiveTransaction THEN RecordResolveString(dex_cache, string_idx)
       ELSE preinitialization_transactions_
  /\ hist' = HistRecord(<<"string", dex_cache, string_idx>>)
  /\ last_call' = NoCall
  /\ UNCHANGED <<hostVars, gAppImageDexFiles, layout, init_frames, class_table, memVars, strong_interns,
                 weak_interns, dex_method_types,
                 active_transaction_, exception, ctlVars>>

ResolveMethodType(dex_cache, proto_idx) ==
  /\ pc = "idle"
  /\ <<dex_cache, proto_idx>> \notin dex_method_types
  /\ dex_method_types' = dex_method_types \cup {<<dex_cache, proto_idx>>}
  /\ preinitialization_transactions_' =
       IF IsActiveTransaction THEN RecordResolveMethodType(dex_cache, proto_idx)
       ELSE preinitialization_transactions_
  /\ hist' = HistRecord(<<"proto", dex_cache, proto_idx>>)
  /\ last_call' = NoCall
  /\ UNCHANGED <<hostVars, gAppImageDexFiles, layout, init_frames, class_table, memVars, strong_interns,
                 weak_interns, dex_strings,
                 active_transaction_, exception, ctlVars>>

\* ------------------------------------------------------ constraints and aborts

\* Objects a write, a static-field read or a reference store is attempted on.
WriteTargets == {"o1", "bootobj", "A", "B"}
StoredValues == {NullRef, "o1", "o2", "B"}
ReadTargets == {"A", "B"}
AllocatedClasses == {"A", "F"}

\* The common shape of AotClassLinker::Transaction*Constraint: when the check
\* disallows, AbortTransactionF with the message and return true; otherwise
\* return false.
\* A Transaction*Constraint operation whose predicate marks the transaction
\* aborted itself, whatever it answers.
ConstraintCall_PredicateAborts(op, arg, disallow, message) ==
  /\ pc = "idle"
  /\ IsActiveTransaction
  /\ IF disallow
     THEN /\ preinitialization_transactions_' = AbortTransactionV(message).transactions
          /\ exception' = AbortTransactionV(message).exception
          /\ hist' = HistAbort(message)
     ELSE /\ preinitialization_transactions_' =
               WithFront(Transaction_Abort(GetTransaction, message))
          /\ hist' = HistAbort(message)
          /\ UNCHANGED exception
  /\ last_call' = [op |-> op, arg |-> arg, ret |-> disallow]
  /\ UNCHANGED <<hostVars, gAppImageDexFiles, layout, init_frames, class_table, memVars, tableVars,
                 active_transaction_, ctlVars>>

ConstraintCall(op, arg, disallow, message) ==
  /\ pc = "idle"
  /\ IsActiveTransaction
  /\ IF disallow
     THEN /\ preinitialization_transactions_' = AbortTransactionV(message).transactions
          /\ exception' = AbortTransactionV(message).exception
          /\ hist' = HistAbort(message)
     ELSE UNCHANGED <<preinitialization_transactions_, exception, hist>>
  /\ last_call' = [op |-> op, arg |-> arg, ret |-> disallow]
  /\ UNCHANGED <<hostVars, gAppImageDexFiles, layout, init_frames, class_table, memVars, tableVars,
                 active_transaction_, ctlVars>>

TransactionWriteConstraint(obj) ==
  ConstraintCall("TransactionWriteConstraint", obj,
                 Transaction_WriteConstraint(GetTransaction, obj),
                 WriteConstraintMessage(obj))

TransactionWriteValueConstraint(value) ==
  ConstraintCall("TransactionWriteValueConstraint", value,
                 Transaction_WriteValueConstraint(GetTransaction, value),
                 WriteValueConstraintMessage(value))

\* AotClassLinker::TransactionReadConstraint returning the answer of the
\* predicate without the call of AbortTransactionF.
TransactionReadConstraint_NoAbort(obj) ==
  /\ pc = "idle"
  /\ IsActiveTransaction
  /\ last_call' = [op |-> "TransactionReadConstraint", arg |-> obj,
                   ret |-> Transaction_ReadConstraint(GetTransaction, obj)]
  /\ UNCHANGED <<hostVars, gAppImageDexFiles, layout, init_frames, class_table, memVars, tableVars,
                 preinitialization_transactions_,
                 active_transaction_, exception, ctlVars, hist>>

TransactionReadConstraint(obj) ==
  ConstraintCall("TransactionReadConstraint", obj,
                 Transaction_ReadConstraint(GetTransaction, obj),
                 ReadConstraintMessage(obj))

\* AotClassLinker::TransactionAllocationConstraint with its test negated.
TransactionAllocationConstraint_Inverted(klass) ==
  ConstraintCall("TransactionAllocationConstraint", klass,
                 ~IsFinalizable(klass),
                 AllocationConstraintMessage(klass))

TransactionAllocationConstraint(klass) ==
  ConstraintCall("TransactionAllocationConstraint", klass,
                 IsFinalizable(klass),
                 AllocationConstraintMessage(klass))

\* The object an allocation of the class yields in the explored runs.
InstanceOf(klass) == "o2"

\* The interpreter's new-instance under an active transaction: the allocation
\* constraint is checked first; when it disallows, the transaction is aborted
\* and the handler returns without allocating; otherwise the object is
\* allocated and recorded as new in the innermost transaction.
NewInstance(klass) ==
  /\ pc = "idle"
  /\ IsActiveTransaction
  /\ IF IsFinalizable(klass)
     THEN /\ preinitialization_transactions_' =
               AbortTransactionV(AllocationConstraintMessage(klass)).transactions
          /\ exception' = AbortTransactionV(AllocationConstraintMessage(klass)).exception
          /\ hist' = HistAbort(AllocationConstraintMessage(klass))
          /\ last_call' = [op |-> "NewInstance", arg |-> klass, ret |-> NullRef]
          /\ UNCHANGED allocated
     ELSE /\ InstanceOf(klass) \notin allocated
          /\ allocated' = allocated \cup {InstanceOf(klass)}
          /\ preinitialization_transactions_' =
               WithFront(Transaction_RecordNewObject(GetTransaction, InstanceOf(klass)))
          /\ hist' = HistRecord(<<"new", InstanceOf(klass)>>)
          /\ last_call' = [op |-> "NewInstance", arg |-> klass,
                           ret |-> InstanceOf(klass)]
          /\ UNCHANGED exception
  /\ UNCHANGED <<hostVars, gAppImageDexFiles, layout, init_frames, class_table, heap, arrays, tableVars,
                 active_transaction_, ctlVars>>

\* AotClassLinker::AbortTransactionF called by any other code with a message.
AbortTransactionF(abort_message) ==
  /\ pc = "idle"
  /\ IsActiveTransaction
  /\ preinitialization_transactions_' = AbortTransactionV(abort_message).transactions
  /\ exception' = AbortTransactionV(abort_message).exception
  /\ hist' = HistAbort(abort_message)
  /\ last_call' = [op |-> "AbortTransactionF", arg |-> abort_message, ret |-> NullRef]
  /\ UNCHANGED <<hostVars, gAppImageDexFiles, layout, init_frames, class_table, memVars, tableVars,
                 active_transaction_, ctlVars>>

\* AotClassLinker::ThrowTransactionAbortError, called to rethrow after an abort.
RethrowTransactionAbortError ==
  /\ pc = "idle"
  /\ IsActiveTransaction
  /\ IsTransactionAborted
  /\ exception' = ThrowTransactionAbortError
  /\ last_call' = [op |-> "ThrowTransactionAbortError", arg |-> NullRef, ret |-> NullRef]
  /\ UNCHANGED <<hostVars, gAppImageDexFiles, layout, init_frames, class_table, memVars, tableVars,
                 preinitialization_transactions_,
                 active_transaction_, ctlVars, hist>>

\* CommonTransactionTestImpl::IsTransactionAborted, the question as the tests
\* ask it: false when no transaction is active, the answer of
\* AotClassLinker::IsTransactionAborted otherwise.
QueryIsTransactionAborted ==
  /\ pc = "idle"
  /\ last_call' = [op |-> "IsTransactionAborted", arg |-> NullRef,
                   ret |-> IF ~IsActiveTransaction THEN FALSE
                           ELSE IsTransactionAborted]
  /\ UNCHANGED <<hostVars, gAppImageDexFiles, layout, init_frames, class_table, memVars, tableVars,
                 preinitialization_transactions_,
                 active_transaction_, exception, ctlVars, hist>>

\* Thread::ClearException: the driver (or a catch handler) takes the error.
ClearException ==
  /\ pc = "idle"
  /\ exception # NoException
  /\ exception' = NoException
  /\ last_call' = NoCall
  /\ UNCHANGED <<hostVars, gAppImageDexFiles, layout, init_frames, class_table, memVars, tableVars,
                 preinitialization_transactions_,
                 active_transaction_, ctlVars, hist>>

\* ClassLinker::InitializeClass succeeding for a class that was resolved:
\* the status becomes kInitialized; with a transaction active
\* Class::SetStatus records the old status word of the class object.
ClassLinker_InitializeClass(klass) ==
  /\ pc = "idle"
  /\ klass \in StatusClasses
  /\ class_table.status[klass] = "kResolved"
  /\ exception = NoException
  /\ class_table' = [class_table EXCEPT !.status[klass] = "kInitialized"]
  /\ preinitialization_transactions_' =
       IF IsActiveTransaction
       THEN WithFront([GetTransaction EXCEPT !.object_logs_ =
              MapPut(@, klass,
                     ObjectLog_LogValue(GetOrCreateObjectLog(GetTransaction, klass),
                                        "k32Bits", 8, class_table.status[klass], TRUE))])
       ELSE preinitialization_transactions_
  /\ last_call' = NoCall
  /\ UNCHANGED <<hostVars, gAppImageDexFiles, layout, init_frames, memVars, tableVars, active_transaction_,
                 exception,
                 ctlVars, hist>>

\* ------------------------------------------- calls without a transaction

\* What the process prints when a CHECK or an enabled DCHECK of
\* IsActiveTransaction() fails, and how a call ends that ran into undefined
\* behaviour.
CheckFailed == "Check failed: IsActiveTransaction()"
KilledBySignal == "SIGSEGV"
Undefined == "undefined"

\* LOG(FATAL) of a failed check: the process ends with the diagnostic and
\* nothing else has changed.
Terminate(op, diagnostic) ==
  /\ pc' = "terminated"
  /\ last_call' = [op |-> op, arg |-> NullRef, ret |-> diagnostic]
  /\ UNCHANGED <<hostVars, gAppImageDexFiles, layout, init_frames, class_table, memVars, tableVars,
                 preinitialization_transactions_,
                 active_transaction_, exception, rollback_all, hist>>

\* What pop_front() or front() of an empty forward_list can leave behind as
\* the list: undefined behaviour, here the empty list or a list with one
\* element that was never entered.
UndefinedLists == { <<>>, <<Transaction(FALSE, NullRef, "undefined", NullRef)>> }

\* AotClassLinker::ExitTransactionMode called with no transaction active.
\* With debug checks the DCHECK ends the process.  Without them pop_front()
\* runs on the empty list: the process is killed, or the call returns with
\* some list, after clearing the flag if that list is empty.
ExitTransactionModeNotActive ==
  /\ pc = "idle"
  /\ ~IsActiveTransaction
  /\ IF layout.kIsDebugBuild
     THEN Terminate("ExitTransactionMode", CheckFailed)
     ELSE \/ Terminate("ExitTransactionMode", KilledBySignal)
          \/ \E list \in UndefinedLists :
               /\ preinitialization_transactions_' = list
               /\ active_transaction_' =
                    IF list = <<>> THEN FALSE ELSE active_transaction_
               /\ hist' = [i \in 1..Len(list) |-> NewHist]
               /\ pc' = "undefined"
               /\ last_call' = [op |-> "ExitTransactionMode", arg |-> NullRef,
                                ret |-> Undefined]
               /\ UNCHANGED <<hostVars, gAppImageDexFiles, layout, init_frames, class_table, memVars,
                              tableVars, exception, rollback_all>>

\* AotClassLinker::RollbackAndExitTransactionMode called with no transaction
\* active.  Without debug checks the flag is cleared, front() and pop_front()
\* run on the empty list, and the flag is set if the list is then not empty.
RollbackAndExitTransactionModeNotActive ==
  /\ pc = "idle"
  /\ ~IsActiveTransaction
  /\ IF layout.kIsDebugBuild
     THEN Terminate("RollbackAndExitTransactionMode", CheckFailed)
     ELSE \/ Terminate("RollbackAndExitTransactionMode", KilledBySignal)
          \/ \E list \in UndefinedLists :
               /\ preinitialization_transactions_' = list
               /\ active_transaction_' = (list # <<>>)
               /\ hist' = [i \in 1..Len(list) |-> NewHist]
               /\ pc' = "undefined"
               /\ last_call' = [op |-> "RollbackAndExitTransactionMode",
                                arg |-> NullRef, ret |-> Undefined]
               /\ UNCHANGED <<hostVars, gAppImageDexFiles, layout, init_frames, class_table, memVars,
                              tableVars, exception, rollback_all>>

\* AotClassLinker::AbortTransactionV with a DCHECK in place of its CHECK.
AbortTransactionNotActive_DebugCheckOnly ==
  /\ pc = "idle"
  /\ ~IsActiveTransaction
  /\ IF layout.kIsDebugBuild
     THEN Terminate("AbortTransactionF", CheckFailed)
     ELSE Terminate("AbortTransactionF", KilledBySignal)

\* AotClassLinker::AbortTransactionF / AbortTransactionV called with no
\* transaction active: the CHECK ends the process in every build.
AbortTransactionNotActive ==
  /\ pc = "idle"
  /\ ~IsActiveTransaction
  /\ Terminate("AbortTransactionF", CheckFailed)

\* ------------------------------------------------------ class initialization

\* mirror::Class::GetStatus, IsInitialized, IsInitializing: the classes of the
\* boot image are visibly initialized, the status of the others is followed in
\* the class table.
GetStatus(klass) ==
  IF klass \in StatusClasses THEN class_table.status[klass] ELSE "kVisiblyInitialized"
IsInitialized(klass) == GetStatus(klass) \in {"kInitialized", "kVisiblyInitialized"}
IsInitializing(klass) ==
  GetStatus(klass) \in {"kInitializing", "kInitialized", "kVisiblyInitialized"}

\* mirror::Class::IsBootStrapClassLoaded, IsInterface, HasSuperClass,
\* IsThrowableClass: a class defined in a dex file of the boot class path has
\* no class loader; none of the classes followed is a Throwable.
IsBootStrapClassLoaded(klass) == GetDexFile(GetDexCache(klass)) = "boot.dex"
IsInterface(klass) == klass \in {"IA", "IB"}
HasSuperClass(klass) == GetSuperClass(klass) # NullRef
IsThrowableClass(klass) == klass \in {}

\* mirror::Class::SetStatus: the status word is a volatile 32-bit field of
\* the class object; with a transaction active the old word is recorded in
\* the front transaction of the list given.
SetStatus(transactions, klass, old_status) ==
  IF transactions = <<>>
  THEN transactions
  ELSE <<[transactions[1] EXCEPT !.object_logs_ =
            MapPut(@, klass,
                   ObjectLog_LogValue(GetOrCreateObjectLog(transactions[1], klass),
                                      "k32Bits", 8, old_status, TRUE))]>>
         \o Tail(transactions)

\* The list after AotClassLinker::EnterTransactionMode(strict, root).
EmplaceFront(strict, root) ==
  LET arena_pool == IF preinitialization_transactions_ = <<>>
                    THEN "runtime_arena_pool" ELSE NullRef
      arena_stack == IF preinitialization_transactions_ = <<>>
                     THEN NullRef
                     ELSE GetArenaStack(preinitialization_transactions_[1])
  IN <<Transaction(strict, root, arena_stack, arena_pool)>>
       \o preinitialization_transactions_

\* ClassLinker::CanAllocClass: the base class linker can always allocate.
ClassLinker_CanAllocClass == TRUE

\* AotClassLinker::CanAllocClass.
CanAllocClass ==
  /\ pc = "idle"
  /\ IF IsActiveTransaction
     THEN LET abort_message == <<"Can't resolve type within transaction.">>
          IN /\ preinitialization_transactions_' =
                  AbortTransactionV(abort_message).transactions
             /\ exception' = AbortTransactionV(abort_message).exception
             /\ hist' = HistAbort(abort_message)
             /\ last_call' = [op |-> "CanAllocClass", arg |-> NullRef, ret |-> FALSE]
     ELSE /\ last_call' = [op |-> "CanAllocClass", arg |-> NullRef,
                           ret |-> ClassLinker_CanAllocClass]
          /\ UNCHANGED <<preinitialization_transactions_, exception, hist>>
  /\ UNCHANGED <<hostVars, gAppImageDexFiles, layout, init_frames, class_table, memVars, tableVars,
                 active_transaction_, ctlVars>>

\* The early returns of AotClassLinker::InitializeClass without the one for
\* a superclass that is being initialized.
InitializeClassAbortMessage_NoSuperclassCheck(klass, strict_mode) ==
  IF /\ ~strict_mode
     /\ ObjectIsInBootImageSpace(GetDexCache(klass))
     /\ IsActiveTransaction
  THEN <<"Can't initialize ", PrettyTypeOf(klass),
         " because it is defined in a boot image dex file.">>
  ELSE IF strict_mode /\ IsBootStrapClassLoaded(klass)
       THEN <<"Can't resolve ", PrettyTypeOf(klass),
              " because it is an uninitialized boot class.">>
       ELSE NullMessage

\* The message with which AotClassLinker::InitializeClass aborts instead of
\* initializing klass, NullMessage when it goes on: the three early returns
\* after an abort, in the order of the code.
InitializeClassAbortMessage(klass, strict_mode) ==
  IF /\ ~strict_mode
     /\ ObjectIsInBootImageSpace(GetDexCache(klass))
     /\ IsActiveTransaction
  THEN <<"Can't initialize ", PrettyTypeOf(klass),
         " because it is defined in a boot image dex file.">>
  ELSE IF strict_mode /\ IsBootStrapClassLoaded(klass)
       THEN <<"Can't resolve ", PrettyTypeOf(klass),
              " because it is an uninitialized boot class.">>
       ELSE IF /\ strict_mode
               /\ ~IsInterface(klass)
               /\ HasSuperClass(klass)
               /\ GetStatus(GetSuperClass(klass)) = "kInitializing"
            THEN <<"Can't resolve ", PrettyTypeOf(klass),
                   " because it's superclass is not initialized.">>
            ELSE NullMessage

\* The CHECK of AotClassLinker::InitializeClass: outside a transaction a
\* class defined in a boot image dex file is initialized only when it is a
\* Throwable.
InitializeClassCheckFails(klass, strict_mode) ==
  /\ ~strict_mode
  /\ ObjectIsInBootImageSpace(GetDexCache(klass))
  /\ ~IsActiveTransaction
  /\ ~IsThrowableClass(klass)

\* AotClassLinker::InitializeClass from the call to the start of the class
\* initializer.  For a class that is initialized or being initialized
\* ClassLinker::InitializeClass returns true at once.  Otherwise the call
\* aborts and returns false, or fails the CHECK, or goes on: in strict mode a
\* strict transaction rooted at the class is entered, then
\* ClassLinker::InitializeClass marks the class kInitializing and runs the
\* initializer, during which the thread performs further operations.  The
\* record of the call keeps klass, strict_mode and, to tell the transactions
\* apart, the length of the list at the call.
InitializeClass(klass) ==
  /\ pc = "idle"
  /\ exception = NoException
  /\ klass \in StatusClasses
  /\ GetStatus(klass) # "kErrorResolved"
  /\ LET strict_mode == IsActiveStrictTransactionMode
         abort_message == InitializeClassAbortMessage(klass, strict_mode)
         entered == IF strict_mode
                    THEN EmplaceFront(TRUE, klass)
                    ELSE preinitialization_transactions_
     IN IF IsInitialized(klass) \/ IsInitializing(klass)
        THEN /\ last_call' = [op |-> "InitializeClass", arg |-> klass, ret |-> TRUE]
             /\ UNCHANGED <<class_table, init_frames, preinitialization_transactions_,
                            active_transaction_, exception, pc, hist>>
        ELSE IF abort_message # NullMessage
        THEN /\ preinitialization_transactions_' =
                  AbortTransactionV(abort_message).transactions
             /\ exception' = AbortTransactionV(abort_message).exception
             /\ hist' = HistAbort(abort_message)
             /\ last_call' = [op |-> "InitializeClass", arg |-> klass, ret |-> FALSE]
             /\ UNCHANGED <<class_table, init_frames, active_transaction_, pc>>
        ELSE IF InitializeClassCheckFails(klass, strict_mode)
        THEN Terminate("CHECK(klass->IsThrowableClass())", PrettyDescriptor(klass))
        ELSE /\ Len(init_frames) < MaxDepth
             /\ preinitialization_transactions_' =
                  SetStatus(entered, klass, GetStatus(klass))
             /\ active_transaction_' = (strict_mode \/ active_transaction_)
             /\ class_table' = [class_table EXCEPT !.status[klass] = "kInitializing"]
             /\ init_frames' =
                  <<[klass |-> klass, strict_mode |-> strict_mode,
                     depth |-> Len(preinitialization_transactions_)]>> \o init_frames
             /\ hist' = IF strict_mode THEN <<NewHist>> \o hist ELSE hist
             /\ last_call' = [op |-> "ClassLinker::InitializeClass", arg |-> klass,
                              ret |-> NullRef]
             /\ UNCHANGED <<exception, pc>>
  /\ UNCHANGED <<hostVars, gAppImageDexFiles, layout, memVars, tableVars, rollback_all>>

\* ClassLinker::InitializeClass after the class initializer has run: the
\* initialization has failed when an exception is pending, or when the
\* transaction was aborted and the error was caught and cleared, in which
\* case the error is thrown again; the class becomes kErrorResolved.
\* Otherwise the class becomes kInitialized.
ClassLinker_InitializeClassSucceeds ==
  /\ exception = NoException
  /\ ~(IsActiveTransaction /\ IsTransactionAborted)

\* AotClassLinker::InitializeClass calling ExitTransactionMode in strict
\* mode whether the initialization succeeded or not.
InitializeClassReturn_ExitsOnFailure ==
  /\ pc = "idle"
  /\ init_frames # <<>>
  /\ LET klass == init_frames[1].klass
         strict_mode == init_frames[1].strict_mode
         success == ClassLinker_InitializeClassSucceeds
         recorded == SetStatus(preinitialization_transactions_, klass, GetStatus(klass))
     IN /\ class_table' =
             [class_table EXCEPT !.status[klass] =
                IF success THEN "kInitialized" ELSE "kErrorResolved"]
        /\ exception' = IF ~success /\ exception = NoException
                        THEN ThrowTransactionAbortError
                        ELSE exception
        /\ IF strict_mode
           THEN /\ preinitialization_transactions_' = Tail(recorded)
                /\ active_transaction_' =
                     IF Tail(recorded) = <<>> THEN FALSE ELSE active_transaction_
                /\ hist' = HistPop(TRUE)
           ELSE /\ preinitialization_transactions_' = recorded
                /\ UNCHANGED <<active_transaction_, hist>>
        /\ last_call' = [op |-> "InitializeClass", arg |-> klass, ret |-> success]
  /\ init_frames' = Tail(init_frames)
  /\ UNCHANGED <<hostVars, gAppImageDexFiles, layout, memVars, tableVars, ctlVars>>

\* AotClassLinker::InitializeClass from the return of the class initializer
\* to its own return: after a success in strict mode ExitTransactionMode
\* pops the front transaction; after a failure the transactions stay, with
\* the exception pending.
InitializeClassReturn ==
  /\ pc = "idle"
  /\ init_frames # <<>>
  /\ LET klass == init_frames[1].klass
         strict_mode == init_frames[1].strict_mode
         success == ClassLinker_InitializeClassSucceeds
         recorded == SetStatus(preinitialization_transactions_, klass, GetStatus(klass))
     IN /\ class_table' =
             [class_table EXCEPT !.status[klass] =
                IF success THEN "kInitialized" ELSE "kErrorResolved"]
        /\ exception' = IF ~success /\ exception = NoException
                        THEN ThrowTransactionAbortError
                        ELSE exception
        /\ IF success /\ strict_mode
           THEN /\ preinitialization_transactions_' = Tail(recorded)
                /\ active_transaction_' =
                     IF Tail(recorded) = <<>> THEN FALSE ELSE active_transaction_
                /\ hist' = HistPop(TRUE)
           ELSE /\ preinitialization_transactions_' = recorded
                /\ UNCHANGED <<active_transaction_, hist>>
        /\ last_call' = [op |-> "InitializeClass", arg |-> klass, ret |-> success]
  /\ init_frames' = Tail(init_frames)
  /\ UNCHANGED <<hostVars, gAppImageDexFiles, layout, memVars, tableVars, ctlVars>>

\* -------------------------------------------- interpreter transaction checkers

\* An operation of a checker class: its name and the types of its arguments.
Operation(name, args) == [name |-> name, args |-> args]

\* The six operations that both checker classes declare.
CheckerOperations ==
  { Operation("WriteConstraint", <<"Thread*", "ObjPtr<mirror::Object>">>),
    Operation("WriteValueConstraint", <<"Thread*", "ObjPtr<mirror::Object>">>),
    Operation("ReadConstraint", <<"Thread*", "ObjPtr<mirror::Object>">>),
    Operation("AllocationConstraint", <<"Thread*", "ObjPtr<mirror::Class>">>),
    Operation("IsTransactionAborted", <<>>),
    Operation("RecordArrayElementsInTransaction", <<"ObjPtr<mirror::Object>", "int32_t">>) }

\* The public static members of class InactiveTransactionChecker.
InactiveTransactionChecker_Operations ==
  CheckerOperations \cup
  { Operation("RecordNewObject", <<"ObjPtr<mirror::Object>">>),
    Operation("RecordNewArray", <<"ObjPtr<mirror::Array>">>) }

\* The public static members of class ActiveTransactionChecker as
\* interpreter_switch_impl1.cc defines it.
ActiveTransactionChecker_Operations ==
  CheckerOperations \cup
  { Operation("RecordAllocatedObject", <<"ObjPtr<mirror::Object>">>) }

\* The public static members of class ActiveTransactionChecker as
\* active_transaction_checker.h defines it.
ActiveTransactionCheckerHeader_Operations == CheckerOperations

OperationNamed(operations, name) == CHOOSE o \in operations : o.name = name

\* InactiveTransactionChecker::WriteConstraint answering with the boot image
\* test of the transactional check.
InactiveTransactionChecker_WriteConstraint_BootImage(obj) ==
  ObjectIsInBootImageSpace(obj)

\* The members of InactiveTransactionChecker that answer: each returns false.
InactiveTransactionChecker_WriteConstraint(obj) == FALSE
InactiveTransactionChecker_WriteValueConstraint(value) == FALSE
InactiveTransactionChecker_ReadConstraint(value) == FALSE
InactiveTransactionChecker_AllocationConstraint(klass) == FALSE
InactiveTransactionChecker_IsTransactionAborted == FALSE

\* A call of a member of InactiveTransactionChecker: the bodies are a return
\* statement or empty.
InactiveCall(name, arg, ret) ==
  /\ pc = "idle"
  /\ last_call' = [op |-> "InactiveTransactionChecker",
                   operation |-> OperationNamed(InactiveTransactionChecker_Operations, name),
                   arg |-> arg, ret |-> ret]
  /\ UNCHANGED <<hostVars, gAppImageDexFiles, layout, init_frames, class_table, memVars, tableVars,
                 preinitialization_transactions_,
                 active_transaction_, exception, ctlVars, hist>>

\* The calls the interpreter makes through InactiveTransactionChecker; the
\* members that return nothing are given the answer NullRef.
InactiveOps ==
  \/ \E obj \in {"o1", "bootobj"} :
       InactiveCall("WriteConstraint", obj, InactiveTransactionChecker_WriteConstraint(obj))
  \/ \E value \in {NullRef, "B"} :
       InactiveCall("WriteValueConstraint", value,
                    InactiveTransactionChecker_WriteValueConstraint(value))
  \/ InactiveCall("ReadConstraint", "B", InactiveTransactionChecker_ReadConstraint("B"))
  \/ InactiveCall("AllocationConstraint", "F",
                  InactiveTransactionChecker_AllocationConstraint("F"))
  \/ InactiveCall("IsTransactionAborted", NullRef,
                  InactiveTransactionChecker_IsTransactionAborted)
  \/ \E input \in {<<NullRef, 0>>, <<"a1", 2>>} :
       InactiveCall("RecordArrayElementsInTransaction", input, NullRef)
  \/ InactiveCall("RecordNewObject", "o1", NullRef)
  \/ InactiveCall("RecordNewArray", "a1", NullRef)

\* RecordArrayElementsInTransactionImpl: RecordWriteArray with the current
\* element for i = 0, ..., count - 1, in this order.
RECURSIVE RecordArrayElementsInTransactionImpl(_, _, _)
RecordArrayElementsInTransactionImpl(transaction, array, count) ==
  IF count = 0
  THEN transaction
  ELSE Transaction_RecordWriteArray(
         RecordArrayElementsInTransactionImpl(transaction, array, count - 1),
         array, count - 1, ToLogWord(layout.elem, arrays[array][count - 1]))

\* RecordArrayElementsInTransaction recording every element of the array,
\* whatever count is.
RecordArrayElements_WholeArray(array, count) ==
  IF array = NullRef
  THEN preinitialization_transactions_
  ELSE IF ~ArrayNeedsTransactionRecords(GetTransaction, array)
  THEN preinitialization_transactions_
  ELSE WithFront(RecordArrayElementsInTransactionImpl(GetTransaction, array,
                                                      Cardinality(IndexesOf(array))))

\* The effect of ActiveTransactionChecker::RecordArrayElementsInTransaction
\* on the transactions: nothing for a null array and for an array that needs
\* no records, the elements below count otherwise.
RecordArrayElements(array, count) ==
  IF array = NullRef
  THEN preinitialization_transactions_
  ELSE IF ~ArrayNeedsTransactionRecords(GetTransaction, array)
  THEN preinitialization_transactions_
  ELSE WithFront(RecordArrayElementsInTransactionImpl(GetTransaction, array, count))

\* ActiveTransactionChecker::RecordArrayElementsInTransaction, called by
\* fill-array-data before it stores the elements.
RecordArrayElementsInTransaction(array, count) ==
  /\ pc = "idle"
  /\ IsActiveTransaction
  /\ array \in {NullRef} \cup (Arrs \cap allocated)
  /\ count \in 0..(IF array = NullRef THEN 0 ELSE Cardinality(IndexesOf(array)))
  /\ preinitialization_transactions_' = RecordArrayElements(array, count)
  /\ last_call' = [op |-> "ActiveTransactionChecker",
                   operation |-> OperationNamed(ActiveTransactionChecker_Operations,
                                                "RecordArrayElementsInTransaction"),
                   arg |-> <<array, count>>, ret |-> NullRef]
  /\ UNCHANGED <<hostVars, gAppImageDexFiles, layout, init_frames, class_table, memVars, tableVars,
                 active_transaction_, exception,
                 ctlVars, hist>>

\* ------------------------------------------------------------ specifications

\* The calls of EnterTransactionMode explored: the compiler driver's
\* non-strict transaction without a root class, and the strict transaction
\* AotClassLinker::InitializeClass opens for the class it initializes.
EnterInputs == {<<FALSE, NullRef>>, <<TRUE, "A">>}

\* The callers of EnterTransactionMode: the compiler driver and the tests
\* enter the outermost transaction, strict or not; a nested transaction is
\* entered by AotClassLinker::InitializeClass, in strict mode only and as a
\* strict one.
CallerEnters(strict) ==
  \/ preinitialization_transactions_ = <<>>
  \/ (IsActiveStrictTransactionMode /\ strict)

\* AotClassLinker::InitializeClass opens its transaction for a class that is
\* neither initialized nor being initialized: the root class of a nested
\* transaction is not the root class of an enclosing one, nor a class whose
\* initialization succeeded inside the enclosing transaction.
InitializeClassEnters(strict, root) ==
  \/ preinitialization_transactions_ = <<>>
  \/ /\ IsActiveStrictTransactionMode
     /\ strict
     /\ \A i \in 1..Len(preinitialization_transactions_) :
          preinitialization_transactions_[i].root_ # root
     /\ root \notin hist[1].initialized

TransactionEnds ==
  \/ ExitTransactionMode
  \/ RollbackAndExitTransactionMode
  \/ RollbackAllTransactions
  \/ RollbackAllLoop
  \/ Rollback
  \/ RollbackUndoArrays
  \/ RollbackUndoObjects
  \/ RollbackUndoInternStrings
  \/ RollbackUndoResolveStrings
  \/ RollbackUndoResolveMethodTypes
  \/ RollbackPopFront

Lifecycle(inputs) ==
  \/ \E input \in inputs :
       CallerEnters(input[1]) /\ EnterTransactionMode(input[1], input[2])
  \/ EnterTransactionModeEmplace
  \/ TransactionEnds

\* The lifecycle with the nested transactions of InitializeClass told apart by
\* their root classes.
ClassInitLifecycle(inputs) ==
  \/ \E input \in inputs :
       InitializeClassEnters(input[1], input[2])
         /\ EnterTransactionMode(input[1], input[2])
  \/ EnterTransactionModeEmplace
  \/ TransactionEnds

FieldOps(objs) ==
  \E obj \in objs :
    \E off \in FieldsOf(obj) :
      \E v \in FieldValues(layout.field[off]) : SetField(obj, off, v)

ArrayOps(arrs) ==
  \E a \in arrs :
    \E i \in IndexesOf(a), v \in ElementValues(layout.elem) : SetArrayElement(a, i, v)

AllocOps ==
  \/ \E obj \in Objs : AllocObject(obj)
  \/ \E a \in Arrs : AllocArray(a)

InternOps ==
  \/ \E s \in Strings : InsertStrong(s)
  \/ \E s \in Strings : InsertWeak(s)
  \/ \E s \in Strings : RemoveStrong(s)
  \/ \E s \in Strings : RemoveWeak(s)

ResolveOps ==
  \/ \E dc \in DexCaches, i \in StringIdx : ResolveString(dc, i)
  \/ \E dc \in DexCaches, i \in ProtoIdx : ResolveMethodType(dc, i)

AbortOps ==
  \/ \E obj \in WriteTargets : TransactionWriteConstraint(obj)
  \/ \E v \in StoredValues : TransactionWriteValueConstraint(v)
  \/ \E k \in ReadTargets : TransactionReadConstraint(k)
  \/ \E k \in AllocatedClasses : TransactionAllocationConstraint(k)
  \/ \E m \in CallerMessages : AbortTransactionF(m)
  \/ RethrowTransactionAbortError
  \/ QueryIsTransactionAborted
  \/ ClearException

Next ==
  \/ Lifecycle(EnterInputs)
  \/ FieldOps(Objs) \/ ArrayOps(Arrs) \/ AllocOps
  \/ InternOps \/ ResolveOps \/ AbortOps
Spec == Init /\ [][Next]_vars

\* Initial states with the types that an operation family does not read fixed.
InitFields == Init /\ layout.elem = "kPrimInt" /\ layout.kIsDebugBuild
InitArrays == Init /\ layout.field[8] = "kBoolean" /\ layout.kIsDebugBuild
InitPlain == Init /\ layout = Layout("kBoolean", "kByte", "kPrimInt")

\* The lifecycle with one family of operations each.  Strictness and the root
\* class are read by the constraint checks only; the specifications without
\* them enter every transaction as InitializeClass does.  The stores are to
\* the object and the array that exist before any transaction; SpecNew has
\* the allocations and the stores to what they allocate.
StrictInputs == {<<TRUE, "A">>}
NextFields == Lifecycle(StrictInputs) \/ FieldOps({"o1"})
SpecFields == InitFields /\ [][NextFields]_vars
NextArrays == Lifecycle(StrictInputs) \/ ArrayOps({"a1"})
SpecArrays == InitArrays /\ [][NextArrays]_vars
NextIntern == Lifecycle(StrictInputs) \/ InternOps
SpecIntern == InitPlain /\ [][NextIntern]_vars
NextResolve == Lifecycle(StrictInputs) \/ ResolveOps
SpecResolve == InitPlain /\ [][NextResolve]_vars
\* A call of RollbackAndExitTransactionMode or RollbackAllTransactions runs on
\* the calling thread without waiting for anything: once entered, its next
\* step is eventually taken.
RollbackRun ==
  \/ RollbackAllLoop
  \/ Rollback
  \/ RollbackUndoArrays
  \/ RollbackUndoObjects
  \/ RollbackUndoInternStrings
  \/ RollbackUndoResolveStrings
  \/ RollbackUndoResolveMethodTypes
  \/ RollbackPopFront
SpecResolveFair == SpecResolve /\ WF_vars(RollbackRun)
NextAbort == Lifecycle(EnterInputs) \/ AbortOps
SpecAbort == InitPlain /\ [][NextAbort]_vars
NextNew == Lifecycle(StrictInputs) \/ FieldOps({"o2"}) \/ ArrayOps({"a2"}) \/ AllocOps
SpecNew == InitPlain /\ [][NextNew]_vars

\* The lifecycle and the resolutions in a build with debug checks and in a
\* build without, with the calls that are made while no transaction is active.
InitBuilds ==
  /\ Init
  /\ layout \in { Layout("kBoolean", "kByte", "kPrimInt"),
                   ReleaseBuild(Layout("kBoolean", "kByte", "kPrimInt")) }
NotActiveOps ==
  \/ ExitTransactionModeNotActive
  \/ RollbackAndExitTransactionModeNotActive
  \/ AbortTransactionNotActive
NextNotActive == Lifecycle(StrictInputs) \/ ResolveOps \/ NotActiveOps
SpecNotActive == InitBuilds /\ [][NextNotActive]_vars

\* The lifecycle and the resolutions with the calls of the interpreter
\* through InactiveTransactionChecker.
NextInactive == Lifecycle(StrictInputs) \/ ResolveOps \/ InactiveOps
SpecInactive == InitPlain /\ [][NextInactive]_vars

\* The lifecycle with array stores, the allocation of an array and
\* fill-array-data recording the elements it is about to overwrite.
FillArrayOps ==
  \E input \in {<<NullRef, 0>>, <<"a1", 1>>, <<"a1", 2>>, <<"a2", 1>>} :
    RecordArrayElementsInTransaction(input[1], input[2])
NextFillArray ==
  \/ Lifecycle(StrictInputs)
  \/ \E a \in Arrs : SetArrayElement(a, 0, 70000)
  \/ AllocArray("a2")
  \/ FillArrayOps
SpecFillArray == InitPlain /\ [][NextFillArray]_vars

\* The lifecycle with stores to the first field of o1 and to the first
\* element of a1, both older than any transaction.
NextWrites ==
  \/ Lifecycle(StrictInputs)
  \/ \E v \in FieldValues(layout.field[8]) : SetField("o1", 8, v)
  \/ \E v \in ElementValues(layout.elem) : SetArrayElement("a1", 0, v)
SpecWrites == InitPlain /\ [][NextWrites]_vars

\* The lifecycle with records of two categories and a constraint check that
\* aborts.
NextLogs ==
  \/ Lifecycle(StrictInputs)
  \/ SetField("o1", 8, 1)
  \/ \E str \in Strings : InsertStrong(str)
  \/ TransactionWriteConstraint("bootobj")
  \/ ClearException
SpecLogs == InitPlain /\ [][NextLogs]_vars

\* The lifecycle with stores to the first field of o1 and a constraint check
\* that aborts.
NextUndo ==
  \/ Lifecycle(StrictInputs)
  \/ \E v \in FieldValues(layout.field[8]) : SetField("o1", 8, v)
  \/ TransactionWriteConstraint("bootobj")
  \/ ClearException
SpecUndo == InitPlain /\ [][NextUndo]_vars

\* The lifecycle with classes that become initialized, outside and inside
\* transactions, and a resolution.
NextEnter ==
  \/ Lifecycle(StrictInputs)
  \/ \E klass \in {"A", "B"} : ClassLinker_InitializeClass(klass)
  \/ ResolveString("dc", 0)
SpecEnter == InitPlain /\ [][NextEnter]_vars

\* Class initialization as the compiler driver runs it: the driver enters
\* the outermost transaction, strict or not; AotClassLinker::InitializeClass
\* is called by the driver for A, by initializers for F, and by both for
\* SubA and B; initializers ask for a class to be allocated and catch the
\* error; the driver ends transactions when no initializer runs.
InitializeClassCalls ==
  \/ (init_frames = <<>> /\ InitializeClass("A"))
  \/ \E klass \in {"SubA", "B"} : InitializeClass(klass)
  \/ (init_frames # <<>> /\ InitializeClass("F"))

InitializerOps ==
  \/ CanAllocClass
  \/ ClearException

NextInitialize ==
  \/ \E input \in EnterInputs :
       /\ init_frames = <<>>
       /\ preinitialization_transactions_ = <<>>
       /\ EnterTransactionMode(input[1], input[2])
  \/ EnterTransactionModeEmplace
  \/ (init_frames = <<>> /\ TransactionEnds)
  \/ InitializeClassCalls
  \/ InitializeClassReturn
  \/ InitializerOps
SpecInitialize == InitPlain /\ [][NextInitialize]_vars

\* The lifecycle with stores to the fields of o1: in the outermost
\* transaction to the second field, in a nested one to both.
NextNested ==
  \/ Lifecycle(StrictInputs)
  \/ /\ Len(preinitialization_transactions_) = 1
     /\ SetField("o1", 12, -128)
  \/ /\ Len(preinitialization_transactions_) = 2
     /\ \E off \in FieldsOf("o1") :
          \E v \in FieldValues(layout.field[off]) : SetField("o1", off, v)
SpecNested == InitPlain /\ [][NextNested]_vars

\* The lifecycle with the aborts, the question whether the transaction is
\* aborted, and records: of a field and an interned string in every
\* transaction, of every category in a nested one.
NextInnermost ==
  \/ Lifecycle(StrictInputs)
  \/ /\ IsActiveTransaction
     /\ (SetField("o1", 8, 1) \/ InsertStrong("foo"))
  \/ /\ Len(preinitialization_transactions_) > 1
     /\ \/ SetArrayElement("a1", 0, 70000)
        \/ ResolveString("dc", 0)
        \/ ResolveMethodType("dc", 0)
  \/ AbortTransactionF(<<"Can't resolve type within transaction.">>)
  \/ QueryIsTransactionAborted
SpecInnermost == InitPlain /\ [][NextInnermost]_vars

\* The lifecycle with one operation of each family, on a reference field, for
\* the roots a transaction holds.
InitRoots == Init /\ layout = Layout("kReference", "kByte", "kPrimInt")
NextRoots ==
  \/ Lifecycle(StrictInputs)
  \/ \E v \in FieldValues("kReference") : SetField("o1", 8, v)
  \/ SetArrayElement("a1", 0, 70000)
  \/ InsertStrong("foo")
  \/ ResolveString("dc", 0)
  \/ ResolveMethodType("dc", 0)
SpecRoots == InitRoots /\ [][NextRoots]_vars

\* The constraint checks under every kind of transaction: non-strict without
\* a root class (the tests), non-strict and strict for a class, and the nested
\* strict transactions of InitializeClass.
InstantiatedClasses == {"B", "F"}
ConstraintInputs ==
  {<<FALSE, NullRef>>, <<FALSE, "A">>, <<TRUE, "A">>, <<TRUE, "B">>}
ConstraintOps ==
  \/ \E obj \in WriteTargets : TransactionWriteConstraint(obj)
  \/ \E v \in StoredValues : TransactionWriteValueConstraint(v)
  \/ \E k \in ReadTargets : TransactionReadConstraint(k)
  \/ \E k \in AllocatedClasses : TransactionAllocationConstraint(k)
  \/ \E k \in InstantiatedClasses : NewInstance(k)
  \/ ClearException
NextConstraint == ClassInitLifecycle(ConstraintInputs) \/ ConstraintOps
SpecConstraint == InitPlain /\ [][NextConstraint]_vars

\* The values whose store is checked: null, instances, and classes of every
\* shape that CanReferenceInBootImageExtensionOrAppImage tells apart.
WriteValues ==
  { NullRef, "o1", "o2", "bootobj", "A", "B", "BootK", "SubB", "ImplB", "Lib",
    "Err", "[A", "[B", "[[B", "[Err", "[I" }
\* The compiler driver sets the dex files of the app image, or none, before
\* it initializes classes in transactions.
AppImageDexFiles ==
  {nullptr, Vector({}), Vector({"app.dex"}), Vector({"app.dex", "lib.dex"})}
NextWriteValue ==
  \/ ClassInitLifecycle(ConstraintInputs)
  \/ \E app_image_dex_files \in AppImageDexFiles :
       /\ preinitialization_transactions_ = <<>>
       /\ SetAppImageDexFiles(app_image_dex_files)
  \/ \E v \in WriteValues : TransactionWriteValueConstraint(v)
  \/ ClearException
SpecWriteValue == InitPlain /\ [][NextWriteValue]_vars

\* ------------------------------------------------------------------- claims

\* The number of entries the transaction holds for an object or an array.
LogEntries(t, ref) ==
  IF ref \in DOMAIN t.object_logs_ THEN ObjectLog_Size(t.object_logs_[ref])
  ELSE IF ref \in DOMAIN t.array_logs_ THEN ArrayLog_Size(t.array_logs_[ref])
  ELSE 0

\* The front transaction has returned from Rollback and is about to be popped,
\* and every change made since its entry was recorded in it.
RolledBack ==
  /\ pc = "pop_front"
  /\ ~hist[1].nested_exit

\* C1: after Rollback every field of every object that existed when the
\* transaction was entered holds the value it had at the entry, whatever was
\* stored to it, and however often, inside the transaction.
C1_RollbackRestoresFields ==
  RolledBack =>
    \A obj \in Objs \cap hist[1].entry.allocated :
      \A off \in FieldsOf(obj) : heap[obj][off] = hist[1].entry.heap[obj][off]

\* A rollback has brought back a non-zero value of a field of o1 that was
\* stored to inside the transaction.
C1_Witness ==
  /\ RolledBack
  /\ \E off \in FieldsOf("o1") :
       /\ <<"field", "o1", off>> \in hist[1].written
       /\ heap["o1"][off] # 0
       /\ heap["o1"][off] = hist[1].entry.heap["o1"][off]

\* C2: after Rollback every element of every array that existed when the
\* transaction was entered holds the value it had at the entry: the written
\* indexes are restored and the others are untouched.
C2_RollbackRestoresArrays ==
  RolledBack =>
    \A array \in Arrs \cap hist[1].entry.allocated :
      \A i \in IndexesOf(array) : arrays[array][i] = hist[1].entry.arrays[array][i]

\* A rollback has brought back a non-zero element of a1 while another index
\* of a1 was not written in the transaction.
C2_Witness ==
  /\ RolledBack
  /\ \E i, j \in IndexesOf("a1") :
       /\ <<"element", "a1", i>> \in hist[1].written
       /\ <<"element", "a1", j>> \notin hist[1].written
       /\ arrays["a1"][i] # 0
       /\ arrays["a1"][i] = hist[1].entry.arrays["a1"][i]

\* C3: when a nested transaction that made changes is rolled back and popped,
\* the transaction it was entered in is the innermost one again, exactly as
\* it was when the nested one was entered (its log entries included), and the
\* process-wide flag is set.
C3_NestedRollbackKeepsOuter ==
  [][ (pc = "pop_front" /\ Len(preinitialization_transactions_) > 1
         /\ hist[1].written # {})
      => /\ preinitialization_transactions_' = Tail(preinitialization_transactions_)
         /\ preinitialization_transactions_' = hist[1].enclosing
         /\ active_transaction_' ]_vars

\* A nested transaction that stored to a field has been rolled back and is
\* about to be popped, and the enclosing transaction has an entry for a field
\* and one for an array element.
C3_Witness ==
  /\ pc = "pop_front"
  /\ ~rollback_all
  /\ Len(preinitialization_transactions_) = 2
  /\ <<"field", "o2", 8>> \in hist[1].written
  /\ LogEntries(preinitialization_transactions_[2], "o2") > 0
  /\ LogEntries(preinitialization_transactions_[2], "a2") > 0

\* C4: between the operations of the transaction stack, and wherever
\* IsActiveTransaction is evaluated, the process-wide flag is set exactly
\* when the stack is non-empty and its front is not rolling back.
C4_FlagMatchesStack ==
  pc \in {"idle", "RollbackAllTransactions"} =>
    (active_transaction_ <=>
       (/\ preinitialization_transactions_ # <<>>
        /\ ~IsRollingBack(GetTransaction)))

\* RollbackAllTransactions has rolled back and popped a nested transaction
\* and is about to test the flag for the enclosing one.
C4_Witness ==
  /\ pc = "RollbackAllTransactions"
  /\ rollback_all
  /\ active_transaction_
  /\ Len(preinitialization_transactions_) = 1
  /\ ~IsRollingBack(GetTransaction)

ConstraintCalls ==
  { "TransactionWriteConstraint", "TransactionWriteValueConstraint",
    "TransactionReadConstraint", "TransactionAllocationConstraint" }

\* The type a constraint's message has to name for the call that returned.
NamedType(call) ==
  CASE call.op = "TransactionWriteConstraint" -> PrettyTypeOf(call.arg)
    [] call.op = "TransactionReadConstraint" -> PrettyTypeOf(call.arg)
    [] call.op = "TransactionWriteValueConstraint" ->
         PrettyDescriptor(IF IsClass(call.arg) THEN call.arg ELSE GetClass(call.arg))
    [] call.op = "TransactionAllocationConstraint" -> PrettyDescriptor(call.arg)

Mentions(message, piece) == \E i \in DOMAIN message : message[i] = piece

\* C5: a Transaction*Constraint call that returns true leaves the front
\* transaction aborted and a transaction abort error pending whose message
\* names the type concerned and, for a write to a boot image object, says
\* "boot image"; a call that returns false leaves the transactions (flags,
\* message, logs) and the pending exception as they were.
C5_ConstraintAborts ==
  [][ last_call'.op \in ConstraintCalls =>
        IF last_call'.ret
        THEN /\ preinitialization_transactions_'[1].aborted_
             /\ preinitialization_transactions_'[1].abort_message_ # <<>>
             /\ exception'.descriptor = kTransactionAbortErrorDescriptor
             /\ Mentions(exception'.message, NamedType(last_call'))
             /\ (/\ last_call'.op = "TransactionWriteConstraint"
                 /\ ObjectIsInBootImageSpace(last_call'.arg))
                  <=> Mentions(exception'.message, "boot image ")
        ELSE UNCHANGED <<preinitialization_transactions_, exception>> ]_vars

\* TransactionWriteConstraint has returned true for the boot image object.
C5_Witness ==
  /\ last_call.op = "TransactionWriteConstraint"
  /\ last_call.arg = "bootobj"
  /\ last_call.ret
  /\ IsTransactionAborted
  /\ exception.message = WriteConstraintMessage("bootobj")

\* C6: from its first abort on, every transaction on the stack is aborted and
\* its message is the one of that first abort, whatever aborts follow.
C6_FirstAbortSticks ==
  \A i \in 1..Len(preinitialization_transactions_) :
    hist[i].first_abort # NullMessage =>
      /\ IsAborted(preinitialization_transactions_[i])
      /\ GetAbortMessage(preinitialization_transactions_[i]) = hist[i].first_abort

\* A constraint has aborted an already aborted transaction with another
\* message: the error carries the new message, the transaction the first.
C6_Witness ==
  /\ last_call.op \in ConstraintCalls
  /\ last_call.ret
  /\ IsTransactionAborted
  /\ GetAbortMessage(GetTransaction) = hist[1].first_abort
  /\ exception.message # GetAbortMessage(GetTransaction)

\* C7: ThrowTransactionAbortError leaves pending the error with the message
\* stored by the first abort; AbortTransactionF leaves pending the error with
\* the message it was given, whatever message is stored.
C7_ThrownMessage ==
  /\ last_call.op = "ThrowTransactionAbortError" =>
       exception = [ descriptor |-> kTransactionAbortErrorDescriptor,
                     message |-> hist[1].first_abort ]
  /\ last_call.op = "AbortTransactionF" =>
       exception = [ descriptor |-> kTransactionAbortErrorDescriptor,
                     message |-> last_call.arg ]

\* AbortTransactionF has thrown its own message for a transaction that
\* stores another one.
C7_Witness ==
  /\ last_call.op = "AbortTransactionF"
  /\ exception.message = last_call.arg
  /\ IsTransactionAborted
  /\ GetAbortMessage(GetTransaction) # last_call.arg

\* C8: after Rollback the strong and the weak intern table hold what they
\* held when the transaction was entered: every logged insertion was undone
\* by a removal and every logged removal by an insertion, in the same table.
C8_RollbackRestoresInternTables ==
  RolledBack =>
    /\ strong_interns = hist[1].entry.strong
    /\ weak_interns = hist[1].entry.weak

\* A rollback has emptied both tables of a string that the transaction
\* inserted and removed in the weak table and inserted in the strong one.
C8_Witness ==
  /\ RolledBack
  /\ <<"strong", "foo">> \in hist[1].written
  /\ <<"weak", "foo">> \in hist[1].written
  /\ "foo" \notin strong_interns \cup weak_interns
  /\ strong_interns \cup weak_interns # {}

\* C9: after Rollback every string slot and every method-type slot whose
\* resolution the transaction recorded is unresolved, and every other slot
\* is resolved or not as it was when the transaction was entered.
C9_RollbackClearsResolvedSlots ==
  pc = "pop_front" =>
    /\ \A dex_cache \in DexCaches :
         /\ \A string_idx \in StringIdx :
              IF <<"string", dex_cache, string_idx>> \in hist[1].written
              THEN <<dex_cache, string_idx>> \notin dex_strings
              ELSE ~hist[1].nested_exit =>
                     (<<dex_cache, string_idx>> \in dex_strings
                        <=> <<dex_cache, string_idx>> \in hist[1].entry.dex_strings)
         /\ \A proto_idx \in ProtoIdx :
              IF <<"proto", dex_cache, proto_idx>> \in hist[1].written
              THEN <<dex_cache, proto_idx>> \notin dex_method_types
              ELSE ~hist[1].nested_exit =>
                     (<<dex_cache, proto_idx>> \in dex_method_types
                        <=> <<dex_cache, proto_idx>> \in hist[1].entry.dex_method_types)

\* A rollback has cleared a recorded string slot and a recorded method-type
\* slot and has left resolved a string slot and a method-type slot that were
\* resolved before the transaction.
C9_Witness ==
  /\ RolledBack
  /\ \E i \in StringIdx : <<"string", "dc", i>> \in hist[1].written
  /\ \E i \in ProtoIdx : <<"proto", "dc", i>> \in hist[1].written
  /\ dex_strings # {}
  /\ dex_method_types # {}

\* The objects and arrays recorded as new in the i-th transaction.
NewIn(i) == { loc[2] : loc \in { l \in hist[i].written : l[1] = "new" } }

NewLogsEmpty ==
  \A i \in 1..Len(preinitialization_transactions_) :
    LET t == preinitialization_transactions_[i]
    IN /\ \A obj \in DOMAIN t.object_logs_ :
            IsNewObject(t.object_logs_[obj]) => ObjectLog_Size(t.object_logs_[obj]) = 0
       /\ \A array \in DOMAIN t.array_logs_ :
            IsNewArray(t.array_logs_[array]) => ArrayLog_Size(t.array_logs_[array]) = 0
       /\ \A ref \in NewIn(i) : LogEntries(t, ref) = 0

NewUntouchedByRollback ==
  pc \notin {"idle", "EnterTransactionMode", "RollbackAllTransactions"} =>
    \A ref \in NewIn(1) :
      /\ ref \in Objs => heap'[ref] = heap[ref]
      /\ ref \in Arrs => arrays'[ref] = arrays[ref]

\* C10: the log of an object or array recorded as new in a transaction holds
\* no entry, whatever is stored to it afterwards, and no step of the
\* transaction's Rollback changes a field or an element of it.
C10_NewObjectsKeepNoRecords ==
  [](NewLogsEmpty) /\ [][NewUntouchedByRollback]_vars

\* Rollback starts for a transaction that allocated o2 and a2 and stored
\* non-zero values to both.
C10_Witness ==
  /\ pc = "UndoArrayModifications"
  /\ NewIn(1) = {"o2", "a2"}
  /\ <<"field", "o2", 8>> \in hist[1].written
  /\ <<"element", "a2", 0>> \in hist[1].written
  /\ heap["o2"][8] # 0
  /\ arrays["a2"][0] # 0
  /\ IsNewObject(preinitialization_transactions_[1].object_logs_["o2"])
  /\ IsNewArray(preinitialization_transactions_[1].array_logs_["a2"])

\* A step of ExitTransactionMode: the only step taken outside a rollback that
\* shortens the transaction stack.
ExitStep ==
  /\ pc = "idle"
  /\ pc' = "idle"
  /\ Len(preinitialization_transactions_') < Len(preinitialization_transactions_)

ExitPopsInnermostOnly ==
  ExitStep =>
    /\ preinitialization_transactions_' = Tail(preinitialization_transactions_)
    /\ UNCHANGED <<memVars, tableVars>>
    /\ active_transaction_
    /\ active_transaction_' <=> (preinitialization_transactions_' # <<>>)

\* C11: ExitTransactionMode removes exactly the innermost transaction, leaves
\* every enclosing transaction, the heap, the arrays, the intern tables and
\* the dex-cache slots as they are, and clears the process-wide flag exactly
\* when the stack becomes empty.
C11_ExitPopsInnermostOnly == [][ExitPopsInnermostOnly]_vars

\* A nested transaction has been exited, not rolled back: the enclosing
\* transaction is still active, and o2 and a2, which the enclosing transaction
\* recorded as new and did not store to itself, keep the non-zero values
\* stored inside the nested transaction.
C11_Witness ==
  /\ pc = "idle"
  /\ Len(preinitialization_transactions_) = 1
  /\ active_transaction_
  /\ hist[1].nested_exit
  /\ NewIn(1) = {"o2", "a2"}
  /\ <<"field", "o2", 8>> \notin hist[1].written
  /\ <<"element", "a2", 0>> \notin hist[1].written
  /\ heap["o2"][8] # 0
  /\ arrays["a2"][0] # 0

\* The steps that abort: a constraint call that returned true, or a call of
\* AbortTransactionF.
AbortStep ==
  /\ pc = "idle"
  /\ \/ last_call'.op = "AbortTransactionF"
     \/ (last_call'.op \in ConstraintCalls /\ last_call'.ret)

AbortKeepsTransaction ==
  AbortStep =>
    /\ Len(preinitialization_transactions_') = Len(preinitialization_transactions_)
    /\ IsActiveTransaction'
    /\ IsTransactionAborted'
    /\ exception'.descriptor = kTransactionAbortErrorDescriptor

\* Without an exit or a rollback, an aborted transaction stays on the stack
\* and stays aborted, and a transaction stays active.
AbortedUntilExit ==
  (/\ pc = "idle"
   /\ pc' = "idle"
   /\ Len(preinitialization_transactions_') >= Len(preinitialization_transactions_)) =>
    LET pushed == Len(preinitialization_transactions_')
                    - Len(preinitialization_transactions_)
    IN /\ \A i \in 1..Len(preinitialization_transactions_) :
            IsAborted(preinitialization_transactions_[i]) =>
              IsAborted(preinitialization_transactions_'[i + pushed])
       /\ IsActiveTransaction => IsActiveTransaction'

ExitOfAbortedKeepsError ==
  (/\ ExitStep
   /\ Len(preinitialization_transactions_) = 1
   /\ IsTransactionAborted) =>
    /\ preinitialization_transactions_' = <<>>
    /\ ~IsActiveTransaction'
    /\ exception' = exception

QueryAnswer ==
  last_call.op = "IsTransactionAborted" =>
    /\ ~IsActiveTransaction => last_call.ret = FALSE
    /\ IsActiveTransaction => (last_call.ret <=> IsAborted(GetTransaction))

\* C12: an operation that aborts inside a transaction leaves the transaction
\* on the stack, active and aborted, with the abort error pending; it stays so
\* until it is exited or rolled back; ExitTransactionMode on the aborted
\* top-level transaction leaves no active transaction and the pending error
\* as it is; and the tests' IsTransactionAborted answers false when no
\* transaction is active.
C12_AbortKeepsTransaction ==
  [](QueryAnswer)
    /\ [][AbortKeepsTransaction /\ AbortedUntilExit /\ ExitOfAbortedKeepsError]_vars

\* A top-level transaction was aborted and then exited: the stack is empty,
\* the abort error is still pending and the tests' IsTransactionAborted has
\* just answered false.
C12_Witness ==
  /\ pc = "idle"
  /\ preinitialization_transactions_ = <<>>
  /\ ~IsActiveTransaction
  /\ exception.descriptor = kTransactionAbortErrorDescriptor
  /\ last_call.op = "IsTransactionAborted"
  /\ last_call.ret = FALSE

LogsDrained(t) ==
  /\ DOMAIN t.object_logs_ = {}
  /\ DOMAIN t.array_logs_ = {}
  /\ t.intern_string_logs_ = <<>>
  /\ t.resolve_string_logs_ = <<>>
  /\ t.resolve_method_type_logs_ = <<>>

\* Inside RollbackAllTransactions the stack changes only at its front: the
\* innermost transaction is rolled back, or it is popped after its rollback
\* has drained its logs; nothing is pushed and no enclosing transaction is
\* touched.
RollbackAllPopsInnermost ==
  rollback_all =>
    \/ /\ Len(preinitialization_transactions_') = Len(preinitialization_transactions_)
       /\ preinitialization_transactions_ # <<>> =>
             Tail(preinitialization_transactions_') = Tail(preinitialization_transactions_)
    \/ /\ preinitialization_transactions_ # <<>>
       /\ preinitialization_transactions_' = Tail(preinitialization_transactions_)
       /\ pc = "pop_front"
       /\ IsRollingBack(GetTransaction)
       /\ LogsDrained(GetTransaction)

RollbackAllEndsEmpty ==
  (rollback_all /\ ~rollback_all') =>
    /\ pc' = "idle"
    /\ preinitialization_transactions_' = <<>>
    /\ ~active_transaction_'

\* C13: RollbackAllTransactions, called at any depth from zero up, returns;
\* until then it rolls back and pops one transaction after the other, the
\* innermost first, and when it returns the stack is empty and the
\* process-wide flag is false.
C13_RollbackAllTerminates ==
  /\ rollback_all ~> (~rollback_all /\ pc = "idle")
  /\ [][RollbackAllPopsInnermost /\ RollbackAllEndsEmpty]_vars

\* RollbackAllTransactions, called with the stack at its full depth and a
\* record in each transaction, is about to pop the innermost transaction after
\* rolling it back.
C13_Witness ==
  /\ rollback_all
  /\ pc = "pop_front"
  /\ Len(preinitialization_transactions_) = MaxDepth
  /\ \A i \in 1..MaxDepth : hist[i].written # {}
  /\ IsRollingBack(GetTransaction)

\* The call that has just returned is a call of the named constraint check;
\* the innermost transaction is the one it was made on.
Returned(op) ==
  /\ pc = "idle"
  /\ last_call.op = op
  /\ preinitialization_transactions_ # <<>>

\* C14 as stated: WriteConstraint disallows exactly the writes to boot-image
\* objects, in strict and in non-strict transactions alike.
C14_WriteConstraintBootImageOnly ==
  Returned("TransactionWriteConstraint") =>
    (last_call.ret <=> ObjectIsInBootImageSpace(last_call.arg))

\* C14, amended: WriteConstraint disallows the write exactly when the object
\* is in the boot image, or the transaction is strict and the object is a
\* class other than the transaction's root class; in a non-strict transaction
\* that is exactly the writes to boot-image objects.
C14_WriteConstraint ==
  Returned("TransactionWriteConstraint") =>
    LET t == preinitialization_transactions_[1]
    IN last_call.ret <=>
         \/ ObjectIsInBootImageSpace(last_call.arg)
         \/ /\ t.strict_
            /\ last_call.arg \in Classes
            /\ last_call.arg # t.root_

\* In the strict transaction of class A a write to class B, which is not in
\* the boot image, was disallowed and has aborted the transaction.
C14_Witness ==
  /\ Returned("TransactionWriteConstraint")
  /\ preinitialization_transactions_[1].strict_
  /\ preinitialization_transactions_[1].root_ = "A"
  /\ last_call.arg = "B"
  /\ ~ObjectIsInBootImageSpace("B")
  /\ last_call.ret
  /\ IsTransactionAborted

\* C15 as stated: ReadConstraint disallows exactly the reads of a class other
\* than the root class of the innermost transaction, whatever the mode of the
\* transaction.
C15_ReadConstraintAnyMode ==
  (/\ Returned("TransactionReadConstraint")
   /\ preinitialization_transactions_[1].root_ # NullRef) =>
    (last_call.ret <=> last_call.arg # preinitialization_transactions_[1].root_)

\* C15, amended: ReadConstraint disallows the read exactly when the innermost
\* transaction is strict and the class read is not its root class.
C15_ReadConstraint ==
  Returned("TransactionReadConstraint") =>
    LET t == preinitialization_transactions_[1]
    IN last_call.ret <=> (t.strict_ /\ last_call.arg # t.root_)

\* Inside the strict transaction of class A the nested strict transaction of
\* class B is the innermost one: a read of A was disallowed there and has
\* aborted it.
C15_Witness ==
  /\ Returned("TransactionReadConstraint")
  /\ Len(preinitialization_transactions_) = 2
  /\ preinitialization_transactions_[1].strict_
  /\ preinitialization_transactions_[1].root_ = "B"
  /\ preinitialization_transactions_[2].root_ = "A"
  /\ last_call.arg = "A"
  /\ last_call.ret
  /\ IsAborted(preinitialization_transactions_[1])
  /\ ~IsAborted(preinitialization_transactions_[2])

\* In the non-strict transaction of class A a read of class B was allowed.
C15_NonStrictWitness ==
  /\ Returned("TransactionReadConstraint")
  /\ ~preinitialization_transactions_[1].strict_
  /\ preinitialization_transactions_[1].root_ = "A"
  /\ last_call.arg = "B"
  /\ ~last_call.ret

\* A read of the static fields of a class other than the root class has just
\* been checked in a strict transaction.
StrictReadOfOtherClass ==
  /\ Returned("TransactionReadConstraint")
  /\ preinitialization_transactions_[1].strict_
  /\ last_call.arg # preinitialization_transactions_[1].root_

\* C16 as stated: the read is rejected while the class read is not yet
\* initialized, and accepted once its own initialization has succeeded.
C16_ReadAcceptedOnceInitialized ==
  StrictReadOfOtherClass =>
    (last_call.ret <=> last_call.arg \notin hist[1].initialized)

\* C16, amended: in the strict transaction of class A a read of the static
\* fields of another class B is rejected by ReadConstraint and aborts the
\* transaction with the error pending, before B is initialized and after the
\* initialization of B has succeeded alike.
C16_StrictReadRejected ==
  StrictReadOfOtherClass =>
    /\ last_call.ret
    /\ IsAborted(preinitialization_transactions_[1])
    /\ exception.descriptor = kTransactionAbortErrorDescriptor
    /\ hist[1].first_abort # NullMessage

\* Inside the strict transaction of class A the nested transaction of class B
\* was exited, so B is initialized; the read of B that followed in the
\* transaction of A was rejected and has aborted it.
C16_Witness ==
  /\ StrictReadOfOtherClass
  /\ Len(preinitialization_transactions_) = 1
  /\ preinitialization_transactions_[1].root_ = "A"
  /\ last_call.arg = "B"
  /\ "B" \in hist[1].initialized
  /\ last_call.ret
  /\ hist[1].first_abort = ReadConstraintMessage("B")

\* The new-object records of every transaction on the stack.
NewObjectRecords ==
  [ i \in 1..Len(preinitialization_transactions_) |->
      [ logs |-> preinitialization_transactions_[i].object_logs_,
        last |-> preinitialization_transactions_[i].last_allocated_object_ ] ]

AllocationConstraintAnswer ==
  Returned("TransactionAllocationConstraint") =>
    /\ last_call.ret <=> IsFinalizable(last_call.arg)
    /\ last_call.ret =>
         /\ IsAborted(preinitialization_transactions_[1])
         /\ exception.descriptor = kTransactionAbortErrorDescriptor

\* The check itself allocates nothing and records nothing; an allocation of a
\* finalizable class returns no object, allocates nothing, records nothing and
\* leaves the transaction aborted; any other allocation returns the object,
\* recorded as new.
AllocationRejected ==
  /\ (pc = "idle" /\ last_call'.op = "TransactionAllocationConstraint") =>
       /\ allocated' = allocated
       /\ NewObjectRecords' = NewObjectRecords
  /\ (pc = "idle" /\ last_call'.op = "NewInstance") =>
       IF IsFinalizable(last_call'.arg)
       THEN /\ last_call'.ret = NullRef
            /\ allocated' = allocated
            /\ NewObjectRecords' = NewObjectRecords
            /\ IsAborted(preinitialization_transactions_'[1])
            /\ exception'.descriptor = kTransactionAbortErrorDescriptor
       ELSE /\ last_call'.ret \in allocated' \ allocated
            /\ IsNewObject(preinitialization_transactions_'[1].object_logs_[last_call'.ret])

\* C17: AllocationConstraint disallows exactly the finalizable classes; when
\* it disallows, the transaction is aborted, the allocation returns no object
\* and no new-object record is added.
C17_AllocationConstraint ==
  [](AllocationConstraintAnswer) /\ [][AllocationRejected]_vars

\* In a transaction that had allocated an instance of B and recorded it as
\* new, the allocation of an instance of the finalizable class F has returned
\* no object and has aborted the transaction with the allocation message.
C17_Witness ==
  /\ Returned("NewInstance")
  /\ last_call.arg = "F"
  /\ last_call.ret = NullRef
  /\ allocated = {"o1", "a1", "o2"}
  /\ DOMAIN preinitialization_transactions_[1].object_logs_ = {"o2"}
  /\ IsAborted(preinitialization_transactions_[1])
  /\ hist[1].first_abort = AllocationConstraintMessage("F")

\* The class the check of a stored value looks at.
ClassOfValue(value) == IF value \in Classes THEN value ELSE GetClass(value)

\* The values of the explored universe whose class cannot be referenced: B
\* and IB are defined in a dex file of the boot image without being in it;
\* SubB has B as superclass and ImplB has IB as interface; the arrays have B,
\* the erroneous class or a primitive type as element type; o2 is an instance
\* of B.  With the dex files of an app image set, so are Lib, defined in
\* lib.dex, and the classes of app.dex when their dex file is not among them.
NotReferencable ==
  {"o2", "B", "SubB", "ImplB", "[B", "[[B", "[Err", "[I"}
    \union (IF gAppImageDexFiles \in {Vector({}), Vector({"app.dex"})}
            THEN {"Lib"} ELSE {})
    \union (IF gAppImageDexFiles = Vector({}) THEN {"o1", "A", "Err", "[A"} ELSE {})

\* C18: WriteValueConstraint disallows the store exactly when the value is a
\* class, or an instance of a class, for which
\* CanReferenceInBootImageExtensionOrAppImage is false; the store of null is
\* never disallowed.
C18_WriteValueConstraint ==
  Returned("TransactionWriteValueConstraint") =>
    /\ last_call.arg = NullRef => ~last_call.ret
    /\ last_call.arg # NullRef =>
         (last_call.ret <=>
            ~CanReferenceInBootImageExtensionOrAppImage(ClassOfValue(last_call.arg)))
    /\ last_call.ret <=> last_call.arg \in NotReferencable

\* The store of the class SubB, whose superclass B is defined in a dex file of
\* the boot image, was disallowed and has aborted the transaction.
C18_Witness ==
  /\ Returned("TransactionWriteValueConstraint")
  /\ last_call.arg = "SubB"
  /\ last_call.ret
  /\ IsAborted(preinitialization_transactions_[1])
  /\ hist[1].first_abort = WriteValueConstraintMessage("SubB")

\* The store of null was allowed.
C18_NullWitness ==
  /\ Returned("TransactionWriteValueConstraint")
  /\ last_call.arg = NullRef
  /\ ~last_call.ret
  /\ ~IsAborted(preinitialization_transactions_[1])

PredicateCalls ==
  { "TransactionReadConstraint", "TransactionWriteConstraint",
    "TransactionWriteValueConstraint" }

\* Everything of a transaction but its aborted flag and its abort message.
LogsAndMode(t) ==
  [t EXCEPT !.aborted_ = FALSE, !.abort_message_ = <<>>]

\* A call whose predicate answers false changes nothing; a call whose
\* predicate answers true changes only what the caller's AbortTransactionF
\* changes: the aborted flag and the abort message of the innermost
\* transaction and the pending exception.
PredicateIsPure ==
  (pc = "idle" /\ last_call'.op \in PredicateCalls) =>
    /\ last_call'.ret \in BOOLEAN
    /\ UNCHANGED <<memVars, tableVars, active_transaction_>>
    /\ Len(preinitialization_transactions_') = Len(preinitialization_transactions_)
    /\ \A i \in 1..Len(preinitialization_transactions_) :
         LogsAndMode(preinitialization_transactions_'[i])
           = LogsAndMode(preinitialization_transactions_[i])
    /\ Tail(preinitialization_transactions_') = Tail(preinitialization_transactions_)
    /\ IF last_call'.ret
       THEN /\ IsAborted(preinitialization_transactions_'[1])
            /\ exception'.descriptor = kTransactionAbortErrorDescriptor
       ELSE UNCHANGED <<preinitialization_transactions_, exception>>

\* C19: ReadConstraint, WriteConstraint and WriteValueConstraint answer with a
\* boolean and change nothing: no aborted flag, no abort message, no log of
\* any transaction, no pending exception; only a caller that got true aborts
\* and throws.
C19_PredicatesArePure == [][PredicateIsPure]_vars

\* WriteConstraint has answered false in a transaction that holds a record
\* and is not aborted: the record is there, the transaction is still not
\* aborted and no exception is pending.
C19_Witness ==
  /\ Returned("TransactionWriteConstraint")
  /\ ~last_call.ret
  /\ DOMAIN preinitialization_transactions_[1].object_logs_ = {"o2"}
  /\ ~IsAborted(preinitialization_transactions_[1])
  /\ exception = NoException

\* The kinds of recorded locations whose log the rollback of the innermost
\* transaction has drained when it stands at the given step.
DrainedAt(step) ==
  CASE step = "UndoObjectModifications" -> {"element"}
    [] step = "UndoInternStringTableModifications" -> {"element", "field"}
    [] step = "UndoResolveStringModifications" ->
         {"element", "field", "strong", "weak"}
    [] step = "UndoResolveMethodTypeModifications" ->
         {"element", "field", "strong", "weak", "string"}
    [] step = "pop_front" ->
         {"element", "field", "strong", "weak", "string", "proto"}
    [] OTHER -> {}

\* The record of the location made in the i-th transaction is still pending.
Pending(i, loc) == i > 1 \/ loc[1] \notin DrainedAt(pc)

\* The visit offers what the recorded location refers to.
Offered(roots, loc) ==
  CASE loc[1] = "field" -> loc[2] \in roots.objects
    [] loc[1] = "element" -> loc[2] \in roots.arrays
    [] loc[1] \in {"strong", "weak"} -> loc[2] \in roots.strings
    [] loc[1] \in {"string", "proto"} -> loc[2] \in roots.dex_caches
    [] OTHER -> TRUE

\* C20: in every state, between any two steps and inside a rollback, the
\* visit of VisitTransactionRoots offers, for every transaction on the stack,
\* its root class, the object, array, string or dex cache of every location
\* whose record is pending, and every non-null reference kept as the old
\* value of a reference field.
C20_VisitRootsCoversAllTransactions ==
  \A i \in 1..Len(preinitialization_transactions_) :
    LET t == preinitialization_transactions_[i]
    IN /\ t.root_ # NullRef => t.root_ \in VisitTransactionRoots.classes
       /\ \A loc \in hist[i].written :
            Pending(i, loc) => Offered(VisitTransactionRoots, loc)
       /\ \A obj \in DOMAIN t.object_logs_ :
            \A off \in DOMAIN t.object_logs_[obj].field_values_ :
              LET old == t.object_logs_[obj].field_values_[off]
              IN (old.kind = "kReference" /\ old.value # 0) =>
                   old.value \in VisitTransactionRoots.references

\* The rollback of the innermost transaction has undone its array log and
\* still holds its object log, with the reference the field held before; the
\* enclosing transaction holds records of all kinds: the visit offers the
\* roots of both.
C20_Witness ==
  /\ pc = "UndoObjectModifications"
  /\ Len(preinitialization_transactions_) = 2
  /\ IsRollingBack(preinitialization_transactions_[1])
  /\ <<"element", "a1", 0>> \in hist[1].written
  /\ DOMAIN preinitialization_transactions_[1].array_logs_ = {}
  /\ Transaction_VisitRoots(preinitialization_transactions_[1]).references = {4096}
  /\ hist[2].written =
       { <<"field", "o1", 8>>, <<"element", "a1", 0>>, <<"strong", "foo">>,
         <<"string", "dc", 0>>, <<"proto", "dc", 0>> }
  /\ VisitTransactionRoots.arrays = {"a1"}
  /\ VisitTransactionRoots.strings = {"foo"}
  /\ VisitTransactionRoots.dex_caches = {"dc"}

\* The transactions of the stack that hold an arena stack of their own.
ArenaOwners ==
  { i \in 1..Len(preinitialization_transactions_) :
      preinitialization_transactions_[i].arena_stack_ }

OutermostOwnsArena ==
  preinitialization_transactions_ # <<>> =>
    LET outermost == Len(preinitialization_transactions_)
    IN /\ ArenaOwners = {outermost}
       /\ \A i \in 1..outermost :
            GetArenaStack(preinitialization_transactions_[i])
              = GetArenaStack(preinitialization_transactions_[outermost])

\* While the stack stays non-empty its outermost transaction, the owner of
\* the arena, stays where it is: the arena is released by no step but the pop
\* of the outermost transaction, and created by no step but an entry at depth
\* zero.
ArenaLivesWithOutermost ==
  /\ (preinitialization_transactions_ # <<>> /\ preinitialization_transactions_' # <<>>) =>
       LET old == preinitialization_transactions_[Len(preinitialization_transactions_)]
           new == preinitialization_transactions_'[Len(preinitialization_transactions_')]
       IN /\ new.arena_stack_
          /\ old.arena_stack_
          /\ GetArenaStack(new) = GetArenaStack(old)
          /\ Len(preinitialization_transactions_') > Len(preinitialization_transactions_) =>
               ~preinitialization_transactions_'[1].arena_stack_
  /\ (preinitialization_transactions_ = <<>> /\ preinitialization_transactions_' # <<>>) =>
       /\ Len(preinitialization_transactions_') = 1
       /\ preinitialization_transactions_'[1].arena_stack_

\* C21: with a non-empty stack exactly the outermost transaction owns an
\* arena stack and every transaction of the stack allocates from it; it is
\* created by the entry at depth zero only and it lives until the outermost
\* transaction is popped, after every nested one.
C21_OutermostOwnsArena ==
  [](OutermostOwnsArena) /\ [][ArenaLivesWithOutermost]_vars

\* A nested transaction holding a record is being rolled back: it borrows
\* the arena stack that the outermost transaction owns.
C21_Witness ==
  /\ Len(preinitialization_transactions_) = MaxDepth
  /\ pc = "UndoResolveStringModifications"
  /\ preinitialization_transactions_[1].resolve_string_logs_ # <<>>
  /\ ~preinitialization_transactions_[1].arena_stack_
  /\ preinitialization_transactions_[MaxDepth].arena_stack_
  /\ GetArenaStack(preinitialization_transactions_[1])
       = GetArenaStack(preinitialization_transactions_[MaxDepth])

\* A step of one of the calls made while no transaction is active.
NotActiveCall ==
  /\ pc = "idle"
  /\ ~IsActiveTransaction
  /\ pc' \in {"terminated", "undefined"}

TerminatedWithDiagnostic ==
  /\ pc' = "terminated"
  /\ last_call'.ret = CheckFailed
  /\ UNCHANGED <<preinitialization_transactions_, active_transaction_>>

\* C22 as stated: each of the calls, made with no transaction active, ends
\* the process with the diagnostic of the failed check, pops nothing and
\* leaves the flag as it is.
C22_AlwaysTerminates == [][NotActiveCall => TerminatedWithDiagnostic]_vars

\* C22, amended: AbortTransactionF / AbortTransactionV made with no
\* transaction active ends the process with the diagnostic in every build;
\* ExitTransactionMode and RollbackAndExitTransactionMode do so in a build
\* with debug checks; in these cases nothing is popped and the flag is left
\* as it is.
C22_TerminatesWhereChecked ==
  [][ (/\ NotActiveCall
       /\ layout.kIsDebugBuild \/ last_call'.op = "AbortTransactionF")
        => TerminatedWithDiagnostic ]_vars

\* In a build with debug checks ExitTransactionMode was called after the
\* last transaction had been rolled back: the process has ended with the
\* diagnostic, the stack is empty and the flag is false.
C22_Witness ==
  /\ pc = "terminated"
  /\ layout.kIsDebugBuild
  /\ last_call = [op |-> "ExitTransactionMode", arg |-> NullRef, ret |-> CheckFailed]
  /\ preinitialization_transactions_ = <<>>
  /\ ~active_transaction_
  /\ dex_strings # {}

\* In a build without debug checks AbortTransactionF was called with no
\* transaction active and the CHECK has ended the process.
C22_ReleaseWitness ==
  /\ pc = "terminated"
  /\ ~layout.kIsDebugBuild
  /\ last_call = [op |-> "AbortTransactionF", arg |-> NullRef, ret |-> CheckFailed]
  /\ preinitialization_transactions_ = <<>>

\* A step that is a call through InactiveTransactionChecker.
InactiveStep == last_call'.op = "InactiveTransactionChecker"

AnsweringOperations ==
  {"WriteConstraint", "WriteValueConstraint", "ReadConstraint",
   "AllocationConstraint", "IsTransactionAborted"}

\* C23: every call through InactiveTransactionChecker leaves the heap, the
\* tables, the transactions with their logs and abort state, the flag and the
\* pending exception as they are, and the four constraint operations and
\* IsTransactionAborted answer false.
C23_InactiveCheckerDoesNothing ==
  [][ InactiveStep =>
        /\ last_call'.operation.name \in AnsweringOperations => last_call'.ret = FALSE
        /\ UNCHANGED <<hostVars, gAppImageDexFiles, layout, init_frames, class_table, memVars, tableVars,
                       preinitialization_transactions_,
                       active_transaction_, exception, ctlVars>> ]_vars

\* With no transaction active, WriteConstraint of
\* the inactive checker was asked about a boot image object and answered
\* false; no error is pending.
C23_Witness ==
  /\ last_call.op = "InactiveTransactionChecker"
  /\ last_call.operation.name = "WriteConstraint"
  /\ last_call.arg = "bootobj"
  /\ last_call.ret = FALSE
  /\ ~IsActiveTransaction
  /\ exception = NoException

\* C24 as stated: an operation called through one checker class is a member,
\* with the same name and argument types, of the other checker class.
C24_IdenticalOperationSets ==
  /\ last_call.op = "InactiveTransactionChecker"
       => last_call.operation \in ActiveTransactionChecker_Operations
  /\ last_call.op = "ActiveTransactionChecker"
       => last_call.operation \in InactiveTransactionChecker_Operations

\* A step that is a call of ActiveTransactionChecker's
\* RecordArrayElementsInTransaction.
FillArrayStep ==
  /\ last_call'.op = "ActiveTransactionChecker"
  /\ last_call'.operation.name = "RecordArrayElementsInTransaction"

\* The entries an array has in the log of transaction t.
ArrayEntries(t, array) ==
  IF array \in DOMAIN t.array_logs_ THEN t.array_logs_[array].array_values_ ELSE EmptyMap

\* What the call with (array, count) has done to the innermost transaction.
FillArrayEffect(array, count) ==
  LET t == preinitialization_transactions_[1]
      u == preinitialization_transactions_'[1]
  IN /\ Tail(preinitialization_transactions_') = Tail(preinitialization_transactions_)
     /\ [u EXCEPT !.array_logs_ = t.array_logs_] = t
     /\ \A other \in Arrs \ {array} : ArrayEntries(u, other) = ArrayEntries(t, other)
     /\ array = NullRef => u = t
     /\ (array # NullRef /\ <<"new", array>> \in hist[1].written) =>
          /\ u = t
          /\ IsNewArray(u.array_logs_[array])
          /\ ArrayLog_Size(u.array_logs_[array]) = 0
     /\ (array # NullRef /\ <<"new", array>> \notin hist[1].written) =>
          /\ DOMAIN ArrayEntries(u, array) =
               DOMAIN ArrayEntries(t, array) \cup 0..(count - 1)
          /\ \A i \in DOMAIN ArrayEntries(t, array) :
               ArrayEntries(u, array)[i] = ArrayEntries(t, array)[i]
          /\ \A i \in (0..(count - 1)) \ DOMAIN ArrayEntries(t, array) :
               ArrayEntries(u, array)[i] = ToLogWord(layout.elem, arrays[array][i])
          /\ array \in DOMAIN u.array_logs_ => ~IsNewArray(u.array_logs_[array])

\* C25: RecordArrayElementsInTransaction(array, count) in an active
\* transaction changes nothing but the array log of the innermost
\* transaction: nothing at all for a null array; nothing for an array
\* allocated inside the transaction, whose log stays flagged as new with no
\* entries; for an array that existed before, every index below count has an
\* entry afterwards, the current element where the index had none (an entry
\* of an earlier write of the transaction stays), and no index from count on
\* gains one.  The heap, the arrays and the tables are not touched.
C25_RecordArrayElements ==
  [][ FillArrayStep =>
        /\ FillArrayEffect(last_call'.arg[1], last_call'.arg[2])
        /\ UNCHANGED <<hostVars, gAppImageDexFiles, layout, init_frames, class_table, memVars, tableVars,
                       active_transaction_, exception,
                       ctlVars>> ]_vars

\* The first element of a1 was set to 70000 before the transaction; the call
\* with count 1 has recorded it, and index 1 has no entry.
C25_Witness ==
  /\ last_call.op = "ActiveTransactionChecker"
  /\ last_call.arg = <<"a1", 1>>
  /\ IsActiveTransaction
  /\ arrays["a1"][0] = 70000
  /\ DOMAIN ArrayEntries(GetTransaction, "a1") = {0}
  /\ ArrayEntries(GetTransaction, "a1")[0] = 70000

\* The call was made for a2, allocated inside the transaction and written
\* since: its log is flagged as new and has no entries.
C25_NewArrayWitness ==
  /\ last_call.op = "ActiveTransactionChecker"
  /\ last_call.arg = <<"a2", 1>>
  /\ IsActiveTransaction
  /\ arrays["a2"][0] = 70000
  /\ <<"new", "a2">> \in hist[1].written
  /\ IsNewArray(GetTransaction.array_logs_["a2"])
  /\ ArrayLog_Size(GetTransaction.array_logs_["a2"]) = 0

\* The five undo passes of Rollback, by the position of the call that runs
\* them.
UndoPasses ==
  {"UndoArrayModifications", "UndoObjectModifications",
   "UndoInternStringTableModifications", "UndoResolveStringModifications",
   "UndoResolveMethodTypeModifications"}

\* The log categories of the transaction being rolled back that still hold
\* entries, numbered in the order of the claim.
PendingCategories ==
  LET t == preinitialization_transactions_[1]
  IN  {c \in 1..5 :
         \/ c = 1 /\ t.array_logs_ # EmptyMap
         \/ c = 2 /\ t.object_logs_ # EmptyMap
         \/ c = 3 /\ t.intern_string_logs_ # <<>>
         \/ c = 4 /\ t.resolve_string_logs_ # <<>>
         \/ c = 5 /\ t.resolve_method_type_logs_ # <<>>}

\* The categories whose state or log a step changes.
UndoneCategories ==
  LET t == preinitialization_transactions_[1]
      u == preinitialization_transactions_'[1]
  IN  {c \in 1..5 :
         \/ c = 1 /\ (arrays' # arrays \/ u.array_logs_ # t.array_logs_)
         \/ c = 2 /\ (heap' # heap \/ u.object_logs_ # t.object_logs_)
         \/ c = 3 /\ (\/ strong_interns' # strong_interns
                       \/ weak_interns' # weak_interns
                       \/ u.intern_string_logs_ # t.intern_string_logs_)
         \/ c = 4 /\ (dex_strings' # dex_strings
                       \/ u.resolve_string_logs_ # t.resolve_string_logs_)
         \/ c = 5 /\ (dex_method_types' # dex_method_types
                       \/ u.resolve_method_type_logs_ # t.resolve_method_type_logs_)}

UndoneInOrder ==
  /\ Cardinality(UndoneCategories) <= 1
  /\ \A c \in UndoneCategories : \A e \in PendingCategories : c <= e
  /\ \A c \in UndoneCategories : c \notin PendingCategories'
  /\ pc' = "pop_front" => PendingCategories' = {}

\* C26: during Rollback a step undoes entries of one category only, and only
\* when no earlier category (arrays, object fields, intern table, string
\* resolutions, method-type resolutions, in this order) has an entry left;
\* when the last pass has run nothing is left.
C26_RollbackOrder == [][(pc \in UndoPasses) => UndoneInOrder]_vars

\* Rollback has undone the array stores and is about to undo the field
\* stores: the element is back at its old value, the field still holds the
\* value of the transaction, and the three other categories are waiting.
C26_Witness ==
  /\ pc = "UndoObjectModifications"
  /\ PendingCategories = {2, 3, 4, 5}
  /\ ~hist[1].nested_exit
  /\ <<"element", "a1", 0>> \in hist[1].written
  /\ arrays["a1"][0] = hist[1].entry.arrays["a1"][0]
  /\ heap["o1"][8] # hist[1].entry.heap["o1"][8]

\* The number of entries the log of transaction t holds for a field offset of
\* an object, and for an index of an array.
FieldEntries(t, obj, off) ==
  IF obj \in DOMAIN t.object_logs_ /\ off \in DOMAIN t.object_logs_[obj].field_values_
  THEN 1 ELSE 0
ElementEntries(t, array, i) ==
  IF i \in DOMAIN ArrayEntries(t, array) THEN 1 ELSE 0

\* A step that is a recorded store to a location of an object or array that
\* is older than the innermost transaction: the location is written in the
\* transaction, and the step changes it or is the first to write it.
RecordedWrite(loc, changed) ==
  /\ pc = "idle" /\ pc' = "idle"
  /\ IsActiveTransaction
  /\ Len(preinitialization_transactions_') = Len(preinitialization_transactions_)
  /\ <<"new", loc[2]>> \notin hist[1].written
  /\ loc \in hist'[1].written
  /\ changed \/ loc \notin hist[1].written
RecordedFieldWrite(obj, off) ==
  RecordedWrite(<<"field", obj, off>>, heap'[obj][off] # heap[obj][off])
RecordedElementWrite(array, i) ==
  RecordedWrite(<<"element", array, i>>, arrays'[array][i] # arrays[array][i])

\* C27 as stated: every recorded store to an offset or index adds an entry
\* for it to the log, so that k stores leave k entries.
C27_EveryWriteAppends ==
  [][ LET t == preinitialization_transactions_[1]
          u == preinitialization_transactions_'[1]
      IN /\ \A obj \in Objs : \A off \in FieldsOf(obj) :
              RecordedFieldWrite(obj, off) =>
                FieldEntries(u, obj, off) = FieldEntries(t, obj, off) + 1
         /\ \A array \in Arrs : \A i \in IndexesOf(array) :
              RecordedElementWrite(array, i) =>
                ElementEntries(u, array, i) = ElementEntries(t, array, i) + 1 ]_vars

\* What a recorded store leaves in the log: one entry for the location, the
\* entry that was there, or else the value the location had before the store.
OneEntryKept ==
  LET t == preinitialization_transactions_[1]
      u == preinitialization_transactions_'[1]
  IN /\ \A obj \in Objs : \A off \in FieldsOf(obj) :
          RecordedFieldWrite(obj, off) =>
            /\ FieldEntries(u, obj, off) = 1
            /\ u.object_logs_[obj].field_values_[off] =
                 IF FieldEntries(t, obj, off) = 1
                 THEN t.object_logs_[obj].field_values_[off]
                 ELSE [value |-> ToLogWord(layout.field[off], heap[obj][off]),
                       kind |-> layout.field[off],
                       is_volatile |-> off \in VolatileOffsets]
     /\ \A array \in Arrs : \A i \in IndexesOf(array) :
          RecordedElementWrite(array, i) =>
            /\ ElementEntries(u, array, i) = 1
            /\ ArrayEntries(u, array)[i] =
                 IF ElementEntries(t, array, i) = 1
                 THEN ArrayEntries(t, array)[i]
                 ELSE ToLogWord(layout.elem, arrays[array][i])

\* What the undo passes of Rollback do with the entries: each logged location
\* is written back with the value of its entry.
EntriesWrittenBack ==
  LET t == preinitialization_transactions_[1]
  IN /\ pc = "UndoObjectModifications" =>
          \A obj \in Objs : \A off \in FieldsOf(obj) :
            heap'[obj][off] =
              IF FieldEntries(t, obj, off) = 1
              THEN FromLogWord(t.object_logs_[obj].field_values_[off].kind,
                               t.object_logs_[obj].field_values_[off].value)
              ELSE heap[obj][off]
     /\ pc = "UndoArrayModifications" =>
          \A array \in Arrs : \A i \in IndexesOf(array) :
            arrays'[array][i] =
              IF ElementEntries(t, array, i) = 1
              THEN FromLogWord(layout.elem, ArrayEntries(t, array)[i])
              ELSE arrays[array][i]

\* C27, amended: the first recorded store to a field offset of an older
\* object (or to an index of an older array) adds one entry holding the value
\* before the store, and later recorded stores to it add nothing and change
\* nothing: after k >= 1 stores the log holds one entry for it, and Rollback
\* writes that entry back.
C27_FirstWriteKept == [][OneEntryKept /\ EntriesWrittenBack]_vars

\* Field 8 of o1 and element 0 of a1, not zero when the transaction was
\* entered, were stored to in it and are zero now; the log holds one entry
\* for each, and the entry of the element is the value at the entry.
C27_Witness ==
  /\ pc = "idle"
  /\ IsActiveTransaction
  /\ Len(preinitialization_transactions_) = 1
  /\ ~hist[1].nested_exit
  /\ <<"field", "o1", 8>> \in hist[1].written
  /\ <<"element", "a1", 0>> \in hist[1].written
  /\ hist[1].entry.heap["o1"][8] # 0
  /\ hist[1].entry.arrays["a1"][0] # 0
  /\ heap["o1"][8] = 0
  /\ arrays["a1"][0] = 0
  /\ "o1" \in DOMAIN GetTransaction.object_logs_
  /\ "a1" \in DOMAIN GetTransaction.array_logs_
  /\ ObjectLog_Size(GetTransaction.object_logs_["o1"]) = 1
  /\ ArrayLog_Size(GetTransaction.array_logs_["a1"]) = 1
  /\ ArrayEntries(GetTransaction, "a1")[0] = hist[1].entry.arrays["a1"][0]

\* The positions of RollbackAndExitTransactionMode from the call of Rollback
\* to the pop.
RollbackPositions == {"Rollback", "pop_front"} \cup UndoPasses

\* Sequence `old` is the tail end of `new`: the list has grown at its front.
GrownAtFront(old, new) ==
  /\ Len(new) >= Len(old)
  /\ SubSeq(new, Len(new) - Len(old) + 1, Len(new)) = old

\* Every entry of the logs of t is in the logs of u, unaltered.
LogsKept(t, u) ==
  /\ \A obj \in DOMAIN t.object_logs_ :
       /\ obj \in DOMAIN u.object_logs_
       /\ u.object_logs_[obj].is_new_object_ = t.object_logs_[obj].is_new_object_
       /\ \A off \in DOMAIN t.object_logs_[obj].field_values_ :
            /\ off \in DOMAIN u.object_logs_[obj].field_values_
            /\ u.object_logs_[obj].field_values_[off] = t.object_logs_[obj].field_values_[off]
  /\ \A array \in DOMAIN t.array_logs_ :
       /\ array \in DOMAIN u.array_logs_
       /\ u.array_logs_[array].is_new_array_ = t.array_logs_[array].is_new_array_
       /\ \A i \in DOMAIN t.array_logs_[array].array_values_ :
            /\ i \in DOMAIN u.array_logs_[array].array_values_
            /\ u.array_logs_[array].array_values_[i] = t.array_logs_[array].array_values_[i]
  /\ GrownAtFront(t.intern_string_logs_, u.intern_string_logs_)
  /\ GrownAtFront(t.resolve_string_logs_, u.resolve_string_logs_)
  /\ GrownAtFront(t.resolve_method_type_logs_, u.resolve_method_type_logs_)

\* The transaction at position k counted from the outermost one.
FromOutermost(list, k) == list[Len(list) - k + 1]

\* Outside Rollback the logs of every transaction that stays on the stack
\* keep their entries.
AppendOnly ==
  pc = "idle" =>
    \A k \in 1..Len(preinitialization_transactions_) :
      k <= Len(preinitialization_transactions_') =>
        LogsKept(FromOutermost(preinitialization_transactions_, k),
                 FromOutermost(preinitialization_transactions_', k))

\* From the call of Rollback to the pop the transaction only loses entries,
\* its abort state stays, the enclosing transactions stay as they are, no
\* error is raised and no operation returns; the steps are those of Rollback
\* and the pop.
RollbackIsLast ==
  pc \in RollbackPositions =>
    /\ exception' = exception
    /\ last_call' = last_call
    /\ pc' \in RollbackPositions \/ pc = "pop_front"
    /\ IF pc = "pop_front"
       THEN preinitialization_transactions_' = Tail(preinitialization_transactions_)
       ELSE LET t == preinitialization_transactions_[1]
                u == preinitialization_transactions_'[1]
            IN /\ Tail(preinitialization_transactions_') = Tail(preinitialization_transactions_)
               /\ LogsKept(u, t)
               /\ u.aborted_ = t.aborted_
               /\ u.abort_message_ = t.abort_message_
               /\ u.strict_ = t.strict_ /\ u.root_ = t.root_

\* C28: from the entry of a transaction to its removal its log entries are
\* neither removed nor altered except by Rollback, and once Rollback has
\* started no record, abort or constraint operation reaches the transaction
\* before it is popped.
C28_LogsDrainedOnlyByRollback == [][AppendOnly /\ RollbackIsLast]_vars

\* Rollback of an aborted transaction with two intern entries and a field
\* entry has undone the field store and is about to undo the interning; the
\* abort message and the pending error are still there.
C28_Witness ==
  /\ pc = "UndoInternStringTableModifications"
  /\ GetTransaction.aborted_
  /\ GetTransaction.rolling_back_
  /\ exception # NoException
  /\ Len(GetTransaction.intern_string_logs_) = 2
  /\ GetTransaction.object_logs_ = EmptyMap
  /\ <<"field", "o1", 8>> \in hist[1].written

\* The flag is false from the call of Rollback to the pop.
FlagClearedDuringRollback == pc \in RollbackPositions => ~active_transaction_

\* The flag is set again by the pop alone, and the pop sets it exactly when a
\* transaction is left.
FlagSetAfterPop ==
  /\ (pc = "idle" /\ pc' = "Rollback") => ~active_transaction_'
  /\ (pc \in RollbackPositions /\ active_transaction_' # active_transaction_) =>
       pc = "pop_front"
  /\ pc = "pop_front" =>
       /\ preinitialization_transactions_' = Tail(preinitialization_transactions_)
       /\ active_transaction_' = (preinitialization_transactions_' # <<>>)

\* The stores of the undo passes are not recorded and not checked: no
\* transaction, neither the one rolled back nor an enclosing one, gains an
\* entry, none is aborted and no error is raised.
UndoNotRecorded ==
  pc \in UndoPasses =>
    /\ Len(preinitialization_transactions_') = Len(preinitialization_transactions_)
    /\ \A i \in 1..Len(preinitialization_transactions_) :
         /\ LogsKept(preinitialization_transactions_'[i], preinitialization_transactions_[i])
         /\ preinitialization_transactions_'[i].aborted_ =
              preinitialization_transactions_[i].aborted_
         /\ preinitialization_transactions_'[i].abort_message_ =
              preinitialization_transactions_[i].abort_message_
    /\ exception' = exception

\* C29: RollbackAndExitTransactionMode clears the flag before Rollback
\* starts, the flag stays false until the transaction is popped and is set
\* again by the pop exactly when the stack is not empty then; while the undo
\* passes store the old values no constraint check fires and no transaction
\* gains a log entry.
C29_FlagClearedDuringRollback ==
  [](FlagClearedDuringRollback) /\ [][FlagSetAfterPop /\ UndoNotRecorded]_vars

\* A nested transaction is being rolled back after an abort: the undo pass
\* has stored the old value of field 8 of o1, the flag is false, and the
\* enclosing transaction, which has an entry of its own for that field, has
\* gained none.
C29_Witness ==
  /\ pc = "UndoInternStringTableModifications"
  /\ Len(preinitialization_transactions_) = 2
  /\ ~active_transaction_
  /\ GetTransaction.aborted_
  /\ ~hist[1].nested_exit
  /\ <<"field", "o1", 8>> \in hist[1].written
  /\ hist[1].entry.heap["o1"][8] # 0
  /\ heap["o1"][8] = hist[1].entry.heap["o1"][8]
  /\ GetTransaction.object_logs_ = EmptyMap
  /\ "o1" \in DOMAIN preinitialization_transactions_[2].object_logs_
  /\ DOMAIN preinitialization_transactions_[2].object_logs_["o1"].field_values_ = {8}
  /\ preinitialization_transactions_[2].object_logs_["o1"].field_values_[8].value = 0

\* The steps of a call of EnterTransactionMode: the wait with the list
\* empty, the step that puts the top-level transaction in front after it, and
\* the call that puts a nested transaction in front.
EnterWaitStep == pc = "idle" /\ pc' = "EnterTransactionMode"
EnterEmplaceStep == pc = "EnterTransactionMode" /\ pc' = "idle"
EnterStep ==
  /\ pc = "idle" /\ pc' = "idle"
  /\ Len(preinitialization_transactions_') = Len(preinitialization_transactions_) + 1

\* What the wait has done: the classes are visibly initialized, no
\* transaction is in the list and the flag is false.
EnterWaitEffect ==
  /\ preinitialization_transactions_ = <<>> /\ ~active_transaction_
  /\ preinitialization_transactions_' = <<>> /\ ~active_transaction_'
  /\ \A klass \in StatusClasses :
       class_table'.status[klass] =
         IF class_table.status[klass] = "kInitialized"
         THEN "kVisiblyInitialized" ELSE class_table.status[klass]
  /\ class_table'.made_visible = [called |-> TRUE, depth |-> 0, flag |-> FALSE]

\* What the steps that put the transaction in front have done.
EnterEmplaceEffect ==
  /\ preinitialization_transactions_ = <<>>
  /\ Len(preinitialization_transactions_') = 1
  /\ active_transaction_'
  /\ class_table' = class_table
  /\ \A klass \in StatusClasses : class_table.status[klass] # "kInitialized"
  /\ preinitialization_transactions_'[1].arena_stack_
EnterEffect ==
  /\ preinitialization_transactions_ # <<>>
  /\ Tail(preinitialization_transactions_') = preinitialization_transactions_
  /\ active_transaction_'
  /\ class_table' = class_table
  /\ ~preinitialization_transactions_'[1].arena_stack_
  /\ GetArenaStack(preinitialization_transactions_'[1]) =
       GetArenaStack(preinitialization_transactions_[1])

\* C30: EnterTransactionMode at depth zero makes every initialized class
\* visibly initialized while no transaction is pushed and the flag is false,
\* and puts the transaction in front only after that; entered with a
\* transaction on the stack it leaves the statuses alone, makes no such call
\* and gives the new transaction the arena stack of the innermost one.  In
\* both cases the new transaction is the innermost afterwards, above the
\* unchanged others, and the flag is true.
C30_EnterTransactionMode ==
  [][/\ EnterWaitStep => EnterWaitEffect
     /\ EnterEmplaceStep => EnterEmplaceEffect
     /\ EnterStep => EnterEffect]_vars

\* A nested transaction has just been entered: class A, initialized before
\* the outermost transaction, was made visibly initialized at its entry;
\* class B, initialized inside the outermost transaction, is still only
\* initialized; the new transaction borrows the arena stack.
C30_Witness ==
  /\ pc = "idle"
  /\ Len(preinitialization_transactions_) = 2
  /\ active_transaction_
  /\ hist[1].written = {}
  /\ GetTransaction.object_logs_ = EmptyMap
  /\ class_table.status["A"] = "kVisiblyInitialized"
  /\ class_table.status["B"] = "kInitialized"
  /\ class_table.made_visible = [called |-> TRUE, depth |-> 0, flag |-> FALSE]
  /\ "B" \in DOMAIN preinitialization_transactions_[2].object_logs_
  /\ ~GetTransaction.arena_stack_
  /\ GetArenaStack(GetTransaction) = GetArenaStack(preinitialization_transactions_[2])

\* ----------------------------------------------------------------- C31

\* The steps of AotClassLinker::InitializeClass: the call that starts the
\* class initializer, the call that returns at once, and the return after
\* the initializer.
InitializerStarts == Len(init_frames') = Len(init_frames) + 1
InitializeClassReturnsAtOnce ==
  /\ last_call'.op = "InitializeClass"
  /\ init_frames' = init_frames
InitializerReturns ==
  /\ init_frames # <<>>
  /\ init_frames' = Tail(init_frames)

\* The step entered a strict transaction rooted at klass and nothing else,
\* and the initializer had not started: the change of the status to
\* kInitializing is recorded in the new transaction.
PushedBeforeInitializer(klass) ==
  /\ Tail(preinitialization_transactions_') = preinitialization_transactions_
  /\ preinitialization_transactions_'[1].strict_
  /\ preinitialization_transactions_'[1].root_ = klass
  /\ ~preinitialization_transactions_'[1].aborted_
  /\ active_transaction_'
  /\ class_table'.status[klass] = "kInitializing"
  /\ klass \in DOMAIN preinitialization_transactions_'[1].object_logs_
  /\ preinitialization_transactions_'[1].object_logs_[klass].field_values_[8].value
       = class_table.status[klass]
  /\ init_frames'[1] = [klass |-> klass, strict_mode |-> TRUE,
                        depth |-> Len(preinitialization_transactions_)]

\* A call pushes a transaction only with a strict transaction active and for
\* a class neither initialized nor initializing; whenever it then runs the
\* initializer, the push came first.
PushOnlyInStrictMode ==
  (InitializerStarts \/ InitializeClassReturnsAtOnce) =>
    LET klass == last_call'.arg
    IN IF Len(preinitialization_transactions_') > Len(preinitialization_transactions_)
       THEN /\ IsActiveStrictTransactionMode
            /\ GetStatus(klass) \notin {"kInitializing", "kInitialized",
                                        "kVisiblyInitialized"}
            /\ InitializerStarts
            /\ PushedBeforeInitializer(klass)
       ELSE /\ Len(preinitialization_transactions_') = Len(preinitialization_transactions_)
            /\ InitializerStarts => ~IsActiveStrictTransactionMode

\* After a success in strict mode exactly the transaction of the call is
\* popped and the list is as long as at the call; after a failure that
\* transaction is still in the list, an exception is pending and the flag is
\* set.  In non-strict mode the list keeps its length.
ReturnPopsOwnTransaction ==
  InitializerReturns =>
    LET frame == init_frames[1]
    IN /\ last_call'.op = "InitializeClass"
       /\ last_call'.arg = frame.klass
       /\ IF ~frame.strict_mode
          THEN Len(preinitialization_transactions_') = Len(preinitialization_transactions_)
          ELSE IF last_call'.ret
               THEN /\ preinitialization_transactions_' =
                         Tail(preinitialization_transactions_)
                    /\ Len(preinitialization_transactions_') = frame.depth
                    /\ preinitialization_transactions_[1].root_ = frame.klass
                    /\ preinitialization_transactions_[1].strict_
                    /\ exception' = NoException
                    /\ class_table'.status[frame.klass] = "kInitialized"
               ELSE /\ Len(preinitialization_transactions_') =
                         Len(preinitialization_transactions_)
                    /\ Len(preinitialization_transactions_') > frame.depth
                    /\ FromOutermost(preinitialization_transactions_',
                                     frame.depth + 1).root_ = frame.klass
                    /\ FromOutermost(preinitialization_transactions_',
                                     frame.depth + 1).strict_
                    /\ exception' # NoException
                    /\ active_transaction_'

\* While initializers run, the transaction of each strict call is in the
\* list at the position it was pushed to.
OwnTransactionsStay ==
  \A i \in 1..Len(init_frames) :
    init_frames[i].strict_mode =>
      /\ Len(preinitialization_transactions_) > init_frames[i].depth
      /\ FromOutermost(preinitialization_transactions_,
                       init_frames[i].depth + 1).root_ = init_frames[i].klass

\* C31: AotClassLinker::InitializeClass pushes a transaction only when a
\* strict transaction is already active and the class is neither initialized
\* nor initializing, and then pushes a strict transaction rooted at that class
\* before running the initializer.  If the initialization succeeds it pops
\* exactly that transaction, which leaves the list as long as before the
\* call; if it fails it leaves that transaction in the list with an exception
\* pending, for the caller to clean up.
C31_InitializeClassTransaction ==
  [](OwnTransactionsStay) /\ [][PushOnlyInStrictMode /\ ReturnPopsOwnTransaction]_vars

\* The initializer of F, run from the initializer of A, has succeeded: the
\* transaction of F is popped, that of A and the driver's are in the list.
C31_Witness ==
  /\ pc = "idle"
  /\ last_call = [op |-> "InitializeClass", arg |-> "F", ret |-> TRUE]
  /\ Len(init_frames) = 1
  /\ init_frames[1].klass = "A"
  /\ init_frames[1].strict_mode
  /\ Len(preinitialization_transactions_) = 2
  /\ class_table.status["F"] = "kInitialized"

\* The initialization of A has failed and returned to the driver: the
\* transaction it pushed is left in front of the driver's, with the error
\* pending.
C31_FailureWitness ==
  /\ pc = "idle"
  /\ last_call = [op |-> "InitializeClass", arg |-> "A", ret |-> FALSE]
  /\ init_frames = <<>>
  /\ Len(preinitialization_transactions_) = 2
  /\ GetTransaction.root_ = "A"
  /\ IsAborted(GetTransaction)
  /\ exception # NoException
  /\ class_table.status["A"] = "kErrorResolved"

\* ----------------------------------------------------------------- C32

\* AotClassLinker::InitializeClass is called for a class that cannot be
\* initialized under the transaction that is active.
CannotInitialize(klass) ==
  /\ GetStatus(klass) \notin {"kInitializing", "kInitialized", "kVisiblyInitialized"}
  /\ IsActiveTransaction
  /\ \/ (~IsStrict(GetTransaction) /\ ObjectIsInBootImageSpace(GetDexCache(klass)))
     \/ (IsStrict(GetTransaction) /\ IsBootStrapClassLoaded(klass))
     \/ /\ IsStrict(GetTransaction)
        /\ GetSuperClass(klass) \in StatusClasses
        /\ class_table.status[GetSuperClass(klass)] = "kInitializing"

\* The step is a call that cannot run under a transaction.
CannotRunStep ==
  /\ pc = "idle"
  /\ \/ (last_call'.op = "CanAllocClass" /\ IsActiveTransaction)
     \/ /\ InitializerStarts \/ InitializeClassReturnsAtOnce
        /\ CannotInitialize(last_call'.arg)

\* The call returns false; the innermost transaction is aborted and is
\* otherwise as it was, like every enclosing transaction; the abort error is
\* pending; no transaction is pushed and no initializer is started.
AbortsAndReturnsFalse ==
  CannotRunStep =>
    /\ last_call'.op \in {"CanAllocClass", "InitializeClass"}
    /\ last_call'.ret = FALSE
    /\ Len(preinitialization_transactions_') = Len(preinitialization_transactions_)
    /\ Tail(preinitialization_transactions_') = Tail(preinitialization_transactions_)
    /\ IsAborted(preinitialization_transactions_'[1])
    /\ [preinitialization_transactions_'[1] EXCEPT
          !.aborted_ = GetTransaction.aborted_,
          !.abort_message_ = GetTransaction.abort_message_] = GetTransaction
    /\ exception'.descriptor = kTransactionAbortErrorDescriptor
    /\ init_frames' = init_frames
    /\ class_table' = class_table
    /\ active_transaction_' = active_transaction_
    /\ UNCHANGED <<memVars, tableVars>>

\* C32: operations that cannot run under a transaction abort the innermost
\* transaction, return false and leave the stack depth unchanged:
\* CanAllocClass whenever a transaction is active, and InitializeClass of an
\* uninitialized class when, in non-strict mode, the dex cache of the class
\* is in the boot image, or, in strict mode, the class is loaded by the boot
\* class loader or its superclass is being initialized.  No transaction is
\* pushed and no initializer is run.
C32_CannotRunUnderTransaction == [][AbortsAndReturnsFalse]_vars

\* The initializer of A, in strict mode, asked for SubA to be initialized
\* while A was being initialized: the call returned false and the
\* transaction of A is aborted.
C32_Witness ==
  /\ pc = "idle"
  /\ last_call = [op |-> "InitializeClass", arg |-> "SubA", ret |-> FALSE]
  /\ Len(init_frames) = 1
  /\ init_frames[1].klass = "A"
  /\ class_table.status["A"] = "kInitializing"
  /\ class_table.status["SubA"] = "kResolved"
  /\ Len(preinitialization_transactions_) = 2
  /\ IsStrict(GetTransaction)
  /\ IsAborted(GetTransaction)
  /\ ~IsAborted(preinitialization_transactions_[2])
  /\ exception.descriptor = kTransactionAbortErrorDescriptor

\* In a non-strict transaction the initialization of B, defined in a dex
\* file of the boot image, was refused.
C32_NonStrictWitness ==
  /\ pc = "idle"
  /\ last_call = [op |-> "InitializeClass", arg |-> "B", ret |-> FALSE]
  /\ Len(preinitialization_transactions_) = 1
  /\ ~IsStrict(GetTransaction)
  /\ IsAborted(GetTransaction)
  /\ class_table.status["B"] = "kResolved"

\* CanAllocClass was refused inside a transaction.
C32_CanAllocClassWitness ==
  /\ pc = "idle"
  /\ last_call = [op |-> "CanAllocClass", arg |-> NullRef, ret |-> FALSE]
  /\ IsActiveTransaction
  /\ IsAborted(GetTransaction)

\* ----------------------------------------------------------------- C33

\* The offsets of the fields of obj with a record in transaction t.
RecordedOffsets(t, obj) ==
  IF obj \in DOMAIN t.object_logs_ THEN DOMAIN t.object_logs_[obj].field_values_ ELSE {}

\* The records of a transaction are for the locations stored to while it was
\* the innermost one; the front transaction loses them in its own rollback.
LogsAreOwnRecords ==
  \A i \in 1..Len(preinitialization_transactions_) :
    (i > 1 \/ pc \in {"idle", "Rollback", "UndoArrayModifications",
                      "UndoObjectModifications"}) =>
      \A off \in FieldsOf("o1") :
        off \in RecordedOffsets(preinitialization_transactions_[i], "o1")
          <=> <<"field", "o1", off>> \in hist[i].written

\* ExitTransactionMode of a nested transaction: the enclosing transactions
\* are as they were, whatever the popped one had recorded, and nothing is
\* undone.
NestedExitDiscards ==
  (ExitStep /\ Len(preinitialization_transactions_) > 1) =>
    /\ preinitialization_transactions_' = Tail(preinitialization_transactions_)
    /\ hist'[1].written = hist[2].written
    /\ UNCHANGED <<memVars, tableVars>>

\* A rollback stores back the locations the transaction has records for, in
\* its pass over the object logs, and leaves every other field as it is.
RollbackRestoresOwnRecordsOnly ==
  (pc \in RollbackPositions) =>
    \A off \in FieldsOf("o1") :
      heap'["o1"][off] =
        IF /\ pc = "UndoObjectModifications"
           /\ <<"field", "o1", off>> \in hist[1].written
        THEN FromLogWord(GetTransaction.object_logs_["o1"].field_values_[off].kind,
                         GetTransaction.object_logs_["o1"].field_values_[off].value)
        ELSE heap["o1"][off]

\* C33: a successful ExitTransactionMode of a nested transaction discards the
\* logs of that transaction without transferring them to the enclosing
\* transaction; a later rollback of the enclosing transaction restores only
\* the locations recorded while the enclosing transaction was itself the
\* innermost one, so that what was first changed inside the exited
\* transaction stays changed.
C33_NestedExitDiscardsLogs ==
  [](LogsAreOwnRecords)
    /\ [][NestedExitDiscards /\ RollbackRestoresOwnRecordsOnly]_vars

\* The outermost transaction, which stored to the second field of o1 and
\* from which a nested transaction that stored to the first field was
\* exited, has been rolled back: the second field is back to zero, the first
\* keeps what the nested transaction stored.
C33_Witness ==
  /\ pc = "pop_front"
  /\ Len(preinitialization_transactions_) = 1
  /\ hist[1].nested_exit
  /\ <<"field", "o1", 12>> \in hist[1].written
  /\ <<"field", "o1", 8>> \notin hist[1].written
  /\ heap["o1"][12] = 0
  /\ heap["o1"][8] = 1

\* ----------------------------------------------------------------- C34

\* Whatever a step does to the list, the transactions that are not the
\* innermost one, before and after, are as they were: a push adds a front, a
\* pop removes it, and every other step leaves the tail alone.
OnlyInnermostAffected ==
  LET before == preinitialization_transactions_
      after == preinitialization_transactions_'
  IN IF Len(after) = Len(before) + 1 THEN Tail(after) = before
     ELSE IF Len(after) + 1 = Len(before) THEN after = Tail(before)
     ELSE /\ Len(after) = Len(before)
          /\ before # <<>> => Tail(after) = Tail(before)

\* When a nested transaction is popped after its rollback, the list is the
\* one the transaction was entered in, and IsTransactionAborted reports the
\* flag the enclosing transaction had then.
PopUncoversEnclosing ==
  (pc = "pop_front" /\ Len(preinitialization_transactions_) > 1) =>
    /\ preinitialization_transactions_' = hist[1].enclosing
    /\ IsTransactionAborted' = IsAborted(hist[1].enclosing[1])
    /\ GetAbortMessage(GetTransaction') = GetAbortMessage(hist[1].enclosing[1])

\* The answer to the question is the flag of the front transaction.
QueryReportsInnermost ==
  (Returned("IsTransactionAborted") /\ IsActiveTransaction) =>
    (last_call.ret <=> GetTransaction.aborted_)

\* C34: every Record* operation and every abort issued through
\* AotClassLinker affects only the innermost transaction: the logs, the
\* aborted flag and the abort message of every enclosing transaction are
\* unchanged, so that after an aborted inner transaction is rolled back and
\* popped IsTransactionAborted reports the flag of the enclosing transaction.
C34_OnlyInnermostAffected ==
  [](QueryReportsInnermost) /\ [][OnlyInnermostAffected /\ PopUncoversEnclosing]_vars

\* A nested transaction that made records and was aborted has been rolled
\* back and popped; the enclosing transaction has its records, is not
\* aborted, and IsTransactionAborted has just said so while the error of the
\* nested transaction is pending.
C34_Witness ==
  /\ Returned("IsTransactionAborted")
  /\ last_call.ret = FALSE
  /\ Len(preinitialization_transactions_) = 1
  /\ ~hist[1].nested_exit
  /\ exception.descriptor = kTransactionAbortErrorDescriptor
  /\ ~IsAborted(GetTransaction)
  /\ GetAbortMessage(GetTransaction) = <<>>
  /\ RecordedOffsets(GetTransaction, "o1") = {8}
  /\ Len(GetTransaction.intern_string_logs_) = 1

\* ============================ dexopt_chroot_setup (dexopt_chroot_setup.cc)

\* in_otaSlot: no value for a Mainline update, a slot suffix for an OTA update.
NoSlot == "nullopt"
OtaSlots == {NoSlot, "_a", "_c"}
IsOtaUpdate(ota_slot) == ota_slot # NoSlot

\* PathInChroot: CHROOT_DIR followed by the path.
PathInChroot(path) == CHROOT_DIR \o path

\* tools.cc PathStartsWith: prefix is path or an ancestor directory of path
\* (the comparison ends at a component boundary; "/" is a prefix of all).
PathStartsWith(path, prefix) ==
  /\ Len(prefix) <= Len(path)
  /\ SubSeq(path, 1, Len(prefix)) = prefix

\* tools.cc GetProcMountsMatches with the predicate of
\* GetProcMountsDescendantsOfPath: the entries at or under path, in the order
\* of /proc/mounts, swap areas left out.
GetProcMountsDescendantsOfPath(mounts, path) ==
  SelectSeq(mounts, LAMBDA entry : /\ entry.fs_type # "swap"
                                   /\ PathStartsWith(entry.mount_point, path))

\* What a filesystem holds, as paths below its root: the root filesystem and a
\* system image hold the mount point directories and apexd, /dev holds pts.
RootFsPaths ==
  {<<>>, <<"system">>, <<"system", "bin">>, <<"system", "bin", "apexd">>,
   <<"system_ext">>, <<"vendor">>, <<"product">>, <<"apex">>, <<"linkerconfig">>,
   <<"mnt">>, <<"data">>, <<"dev">>, <<"proc">>, <<"sys">>, <<"metadata">>}
Contents(blk_device) ==
  IF blk_device \in {<<"dev", "block", "mapper", "system", "_a">>,
                     <<"dev", "block", "mapper", "system", "_b">>}
  THEN RootFsPaths
  ELSE IF blk_device = <<"dev">> THEN {<<>>, <<"pts">>}
  ELSE {<<>>}

\* The state of the operating system the service works on.
OsState(dirs, mounts) == [dirs |-> dirs, mounts |-> mounts]

\* The last mount at or above path: the one through which path is seen.
Nearest(above) ==
  above[CHOOSE i \in 1..Len(above) :
          /\ \A j \in 1..Len(above) :
               Len(above[j].mount_point) <= Len(above[i].mount_point)
          /\ \A j \in (i + 1)..Len(above) :
               Len(above[j].mount_point) < Len(above[i].mount_point)]
CoveringMount(os, path) ==
  Nearest(SelectSeq(os.mounts, LAMBDA entry : PathStartsWith(path, entry.mount_point)))

\* The filesystem of the mount holds the path.
HeldBy(covering, path) ==
  SubSeq(path, Len(covering.mount_point) + 1, Len(path)) \in Contents(covering.blk_device)

\* OS::FileExists, and the existence test inside mkdir and mount: the path was
\* created by the service, or the filesystem mounted over it holds it.
FileExists(os, path) ==
  \/ path \in os.dirs
  \/ HeldBy(CoveringMount(os, path), path)

\* What is visible at a path that is given as the source of a bind mount.
VisibleAt(os, path) ==
  IF \E i \in 1..Len(os.mounts) : os.mounts[i].mount_point = path
  THEN CoveringMount(os, path).blk_device
  ELSE path

\* /proc/filesystems, a line as its tokens: a line of two tokens carries the
\* "nodev" mark.  And the filesystem that an image on a block device holds.
ProcFilesystems ==
  <<<<"nodev", "sysfs">>, <<"nodev", "tmpfs">>, <<"ext4">>, <<"f2fs">>, <<"erofs">>>>
ImageFilesystem(block_device) == "erofs"

\* The loop over kWellKnownFilesystems: a filesystem that is in the list moves
\* to its front.
kWellKnownFilesystems == <<"erofs", "ext4">>
Prioritize(filesystems, well_known_fs) ==
  IF \E i \in 1..Len(filesystems) : filesystems[i] = well_known_fs
  THEN <<well_known_fs>> \o SelectSeq(filesystems, LAMBDA fs : fs # well_known_fs)
  ELSE filesystems

\* GetSupportedFilesystems: the lines of one token, the well-known filesystems
\* first ("ext4" before "erofs", as each is put at the front in turn).
GetSupportedFilesystems(content) ==
  Prioritize(Prioritize([i \in 1..Len(SelectSeq(content, LAMBDA tokens : Len(tokens) = 1)) |->
                           SelectSeq(content, LAMBDA tokens : Len(tokens) = 1)[i][1]],
                        kWellKnownFilesystems[1]),
             kWellKnownFilesystems[2])

\* A call that a function of the service makes to the operating system, as
\* the function keeps it until it makes it.
CreateDirCall(path) == [op |-> "CreateDir", path |-> path]
mount_MS_BINDCall(source, target) == [op |-> "mount_MS_BIND", source |-> source, target |-> target]
mount_MS_SLAVECall(target) == [op |-> "mount_MS_SLAVE", target |-> target]
MountCall(block_device, target, error_msgs) ==
  [op |-> "Mount", block_device |-> block_device, target |-> target,
   error_msgs |-> error_msgs]
MountTmpfsCall(target) == [op |-> "MountTmpfs", target |-> target]
umount2Call(mount_point) == [op |-> "umount2", mount_point |-> mount_point]
remove_allCall(path) == [op |-> "remove_all", path |-> path]
ReadCall(reader, source, target) ==
  [op |-> "ReadFstabFromProcMounts", reader |-> reader, source |-> source, target |-> target]
SetPropertyCall(text) == [op |-> "SetProperty", text |-> text]
WaitForPropertyCall == [op |-> "WaitForProperty"]
GetArtExecCmdlineBuilderCall == [op |-> "GetArtExecCmdlineBuilder"]
RunCall(log_name, option) == [op |-> "Run", log_name |-> log_name, option |-> option]

\* What a call gives: the state of the operating system and of the static of
\* Mount after it, and the calls that the function makes next because of what
\* this call gave; or the error that the function returns (OR_RETURN).
Returns(os, static, next) ==
  [ok |-> TRUE, os |-> os, static |-> static, next |-> next, message |-> NoMessage]
Errorf(os, static, text, arg) ==
  [ok |-> FALSE, os |-> os, static |-> static, next |-> <<>>, message |-> Message(text, arg)]

\* One call to the operating system.  It fails when the environment makes it
\* fail or when the state of the system does not allow it (refused);
\* otherwise it has its effect.
OsCall(os, static, refused, text, arg, effect) ==
  IF refused THEN Errorf(os, static, text, arg) ELSE Returns(effect, static, <<>>)

Parent(path) == SubSeq(path, 1, Len(path) - 1)

\* CreateDir: std::filesystem::create_directory, no error when the directory
\* exists already.
CreateDir(os, static, path, fails) ==
  OsCall(os, static, fails \/ (~FileExists(os, path) /\ ~FileExists(os, Parent(path))),
         "Failed to create dir '{}': {}", path,
         IF FileExists(os, path) THEN os ELSE [os EXCEPT !.dirs = @ \union {path}])

\* mount(2) with MS_BIND: the source and the target have to exist; the target
\* shows what is visible at the source, and the new mount is the last of
\* /proc/mounts.
mount_MS_BIND(os, static, source, target, fails) ==
  OsCall(os, static, fails \/ ~FileExists(os, source) \/ ~FileExists(os, target),
         "Failed to bind-mount '{}' at '{}'", <<source, target>>,
         [os EXCEPT !.mounts = Append(@, FstabEntry(target, "bind", VisibleAt(os, source)))])

\* mount(2) with MS_SLAVE: changes the propagation type of an existing mount.
mount_MS_SLAVE(os, static, target, fails) ==
  OsCall(os, static,
         fails \/ \A i \in 1..Len(os.mounts) : os.mounts[i].mount_point # target,
         "Failed to make mount slave for '{}'", target, os)

\* The /proc/mounts list without its last entry at mount_point.
RemoveLastMount(mounts, mount_point) ==
  LET last == CHOOSE i \in 1..Len(mounts) :
                /\ mounts[i].mount_point = mount_point
                /\ \A j \in (i + 1)..Len(mounts) : mounts[j].mount_point # mount_point
  IN SubSeq(mounts, 1, last - 1) \o SubSeq(mounts, last + 1, Len(mounts))

\* umount2(2) with UMOUNT_NOFOLLOW: fails when nothing is mounted at the path
\* (EINVAL) or when something is mounted below it (EBUSY); the directories
\* made inside the filesystem go with it.
umount2(os, static, mount_point, fails) ==
  OsCall(os, static,
         \/ fails
         \/ \A i \in 1..Len(os.mounts) : os.mounts[i].mount_point # mount_point
         \/ \E i \in 1..Len(os.mounts) :
              /\ os.mounts[i].mount_point # mount_point
              /\ PathStartsWith(os.mounts[i].mount_point, mount_point),
         "Failed to umount2 '{}'", mount_point,
         OsState({dir \in os.dirs : ~PathStartsWith(dir, mount_point) \/ dir = mount_point},
                 RemoveLastMount(os.mounts, mount_point)))

\* std::filesystem::remove_all: removes the directory and all below it; it
\* fails on a mount point (EBUSY).  Nothing to remove is not an error.
remove_all(os, static, path, fails) ==
  OsCall(os, static, fails \/ GetProcMountsDescendantsOfPath(os.mounts, path) # <<>>,
         "Failed to remove dir '{}': {}", path,
         [os EXCEPT !.dirs = {dir \in @ : ~PathStartsWith(dir, path)}])

\* SetProperty and WaitForProperty of a sys.snapshotctl property.
SetProperty(os, static, text, fails) == OsCall(os, static, fails, text, <<>>, os)
WaitForProperty(os, static, fails) ==
  OsCall(os, static, fails, "snapshotctl timed out", <<>>, os)

\* GetArtExecCmdlineBuilder: GetArtRootSafe can fail.
GetArtExecCmdlineBuilder(os, static, fails) ==
  OsCall(os, static, fails, "GetArtRootSafe", <<>>, os)

\* The APEXes that apexd mounts in the chroot.
ApexNames == {"com.android.runtime"}
ApexMount(name) ==
  FstabEntry(PathInChroot(<<"apex", name>>), "ext4", <<"dev", "block", "loop">>)

\* Run: Exec of art_exec --chroot=CHROOT_DIR with the program, which returns
\* when the program has ended.  apexd --otachroot-bootstrap mounts the APEXes
\* on the tmpfs at /apex of the chroot; apexd --unmount-all unmounts all of
\* them, unless it only reports so; linkerconfig needs its APEX.
RunEffect(os, option, apexd_unmounts) ==
  LET apex == PathInChroot(<<"apex">>)
      name == CHOOSE name \in ApexNames : TRUE
  IN IF option = "--otachroot-bootstrap"
     THEN OsState(os.dirs \union {PathInChroot(<<"apex", name>>)},
                  Append(os.mounts, ApexMount(name)))
     ELSE IF option = "--unmount-all" /\ apexd_unmounts
     THEN OsState(os.dirs,
                  SelectSeq(os.mounts,
                            LAMBDA entry : \/ entry.mount_point = apex
                                           \/ ~PathStartsWith(entry.mount_point, apex)))
     ELSE os
RunRefused(os, log_name) ==
  IF log_name = "apexd"
  THEN ~FileExists(os, PathInChroot(<<"system", "bin", "apexd">>))
  ELSE \A i \in 1..Len(os.mounts) :
         os.mounts[i].mount_point # PathInChroot(<<"apex", "com.android.runtime">>)
Run(os, static, log_name, option, fails, apexd_unmounts) ==
  OsCall(os, static, fails \/ RunRefused(os, log_name),
         "Failed to run {}: {}", <<log_name>>, RunEffect(os, option, apexd_unmounts))

\* BindMount: the steps through kBindMountTmpDir, each of which returns its
\* error (OR_RETURN).  The mount at the target shows what the temporary mount
\* point shows.
BindMount(source, target) ==
  <<CreateDirCall(kBindMountTmpDir),
    mount_MS_BINDCall(source, kBindMountTmpDir),
    mount_MS_SLAVECall(kBindMountTmpDir),
    mount_MS_BINDCall(kBindMountTmpDir, target),
    umount2Call(kBindMountTmpDir)>>

\* The loop of BindMountRecursive over the mounts under source, in mount order.
RECURSIVE BindMountEntries(_, _, _)
BindMountEntries(entries, source, target) ==
  IF entries = <<>> THEN <<>>
  ELSE (IF Head(entries).mount_point = source THEN <<>>
        ELSE BindMount(Head(entries).mount_point,
                       target \o SubSeq(Head(entries).mount_point, Len(source) + 1,
                                        Len(Head(entries).mount_point))))
       \o BindMountEntries(Tail(entries), source, target)

\* BindMountRecursive: source, then each mount under it, one by one, as
\* /proc/mounts lists them after the mount of source.
BindMountRecursive(source, target) ==
  BindMount(source, target) \o <<ReadCall("BindMountRecursive", source, target)>>

\* GetBlockDeviceName: "/dev/block/mapper/" with the partition and the slot;
\* the last component is kept as its two parts.
GetBlockDeviceName(partition, slot) == <<"dev", "block", "mapper", partition, slot>>

\* errno of mount(2) of a block device, "0" for success: the target has to
\* exist; a wrong filesystem type gives EINVAL, and EBUSY when the device is
\* also mounted elsewhere.
mount_errno(os, block_device, target, filesystem, fails) ==
  IF fails THEN "EIO"
  ELSE IF ~FileExists(os, target) THEN "ENOENT"
  ELSE IF filesystem = ImageFilesystem(block_device) THEN "0"
  ELSE IF \E i \in 1..Len(os.mounts) : os.mounts[i].blk_device = block_device THEN "EBUSY"
  ELSE "EINVAL"

\* The body of the loop of Mount for the filesystem that follows those tried:
\* on success Mount returns; after EINVAL and EBUSY the loop goes on to the
\* next filesystem; any other errno, and the end of the list, end it with the
\* error.
MountLoop(os, static, call, filesystem, errno) ==
  IF errno = "0"
  THEN Returns([os EXCEPT !.mounts = Append(@, FstabEntry(call.target, filesystem,
                                                         call.block_device))],
               static, <<>>)
  ELSE IF errno \in {"EINVAL", "EBUSY"} /\ Len(call.error_msgs) + 1 < Len(static.value)
  THEN Returns(os, static,
               <<MountCall(call.block_device, call.target,
                           Append(call.error_msgs, <<filesystem, errno>>))>>)
  ELSE Errorf(os, static, "Failed to mount '{}' at '{}':\n{}",
              <<call.block_device, call.target,
                Append(call.error_msgs, <<filesystem, errno>>)>>)

\* Mount: the first call in the process reads /proc/filesystems into the
\* static; an error of that read is returned, by this call and by every later
\* one.  Then mount(2) is tried with each supported filesystem in turn.
Mount(os, static, call, fails) ==
  IF ~static.initialized
  THEN IF fails
       THEN Errorf(os, ResultError(Message("Failed to read '/proc/filesystems'", <<>>)),
                   "Failed to read '/proc/filesystems'", <<>>)
       ELSE Returns(os, ResultOk(GetSupportedFilesystems(ProcFilesystems)), <<call>>)
  ELSE IF ~static.ok
  THEN Errorf(os, static, static.error.text, static.error.arg)
  ELSE IF Len(call.error_msgs) >= Len(static.value)
  THEN Errorf(os, static, "Failed to mount '{}' at '{}':\n{}",
              <<call.block_device, call.target, call.error_msgs>>)
  ELSE MountLoop(os, static, call, static.value[Len(call.error_msgs) + 1],
                 mount_errno(os, call.block_device, call.target,
                             static.value[Len(call.error_msgs) + 1], fails))

\* MountTmpfs: the target has to exist.
MountTmpfs(os, static, target, fails) ==
  OsCall(os, static, fails \/ ~FileExists(os, target),
         "Failed to mount tmpfs at '{}'", target,
         [os EXCEPT !.mounts = Append(@, FstabEntry(target, "tmpfs", <<"tmpfs">>))])

Reverse(seq) == [i \in 1..Len(seq) |-> seq[Len(seq) + 1 - i]]

\* The order in which TearDownChroot unmounts: the reverse of the mount order
\* (rbegin to rend); and an order that follows the mount order.
UmountOrder_MountOrder(entries) == entries
UmountOrder(entries) == Reverse(entries)

\* The entries under /apex of the chroot that are not /apex itself.
ApexEntries(mounts) ==
  SelectSeq(GetProcMountsDescendantsOfPath(mounts, PathInChroot(<<"apex">>)),
            LAMBDA entry : entry.mount_point # PathInChroot(<<"apex">>))

\* If /apex of the chroot has more than its own entry and apexd is there,
\* apexd unmounts all APEXes.
UnmountApexes(os) ==
  IF /\ Len(GetProcMountsDescendantsOfPath(os.mounts, PathInChroot(<<"apex">>))) > 1
     /\ FileExists(os, PathInChroot(<<"system", "bin", "apexd">>))
  THEN <<GetArtExecCmdlineBuilderCall, RunCall("apexd", "--unmount-all")>>
  ELSE <<>>
\* Everything at or under CHROOT_DIR is unmounted, from rbegin to rend.
UmountEntries(os) ==
  [i \in 1..Len(GetProcMountsDescendantsOfPath(os.mounts, CHROOT_DIR)) |->
     umount2Call(UmountOrder(GetProcMountsDescendantsOfPath(os.mounts, CHROOT_DIR))[i].mount_point)]
\* kBindMountTmpDir is unmounted if something is mounted there.
UmountTmpDir(os) ==
  IF GetProcMountsDescendantsOfPath(os.mounts, kBindMountTmpDir) # <<>>
  THEN <<umount2Call(kBindMountTmpDir)>>
  ELSE <<>>
BindMountSubmounts(os, source, target) ==
  BindMountEntries(GetProcMountsDescendantsOfPath(os.mounts, source), source, target)

\* What the function does with the entries that GetProcMountsDescendantsOfPath
\* gave it.
Entries(os, call) ==
  CASE call.reader = "has_apex" -> UnmountApexes(os)
    [] call.reader = "DoubleCheck" -> <<>>
    [] call.reader = "entries" -> UmountEntries(os)
    [] call.reader = "kBindMountTmpDir" -> UmountTmpDir(os)
    [] call.reader = "BindMountRecursive" -> BindMountSubmounts(os, call.source, call.target)

\* GetProcMountsDescendantsOfPath: ReadFstabFromProcMounts can fail.  In the
\* double check an entry under /apex of the chroot is an error.
ReadFstabFromProcMounts(os, static, call, fails) ==
  IF fails
  THEN Errorf(os, static, "Failed to read fstab from /proc/mounts", <<>>)
  ELSE IF call.reader = "DoubleCheck" /\ ApexEntries(os.mounts) # <<>>
  THEN Errorf(os, static, "apexd didn't unmount '{}'. See logs for details",
              ApexEntries(os.mounts)[1].mount_point)
  ELSE Returns(os, static, Entries(os, call))

\* TearDownChroot: apexd unmounts the APEXes, then everything under CHROOT_DIR
\* is unmounted in reverse mount order and the directories are removed.
TearDownChroot ==
  <<ReadCall("has_apex", <<>>, <<>>),
    ReadCall("DoubleCheck", <<>>, <<>>),
    ReadCall("entries", <<>>, <<>>),
    remove_allCall(CHROOT_DIR),
    ReadCall("kBindMountTmpDir", <<>>, <<>>),
    remove_allCall(kBindMountTmpDir),
    SetPropertyCall("Failed to request snapshotctl unmap"),
    WaitForPropertyCall>>

additional_system_partitions == <<"system_ext", "vendor", "product">>
bind_mount_srcs ==
  <<<<"data">>, <<"mnt", "expand">>, <<"dev">>, <<"proc">>, <<"sys">>, <<"metadata">>>>

\* "In case there is some leftover": SetUpChroot starts with TearDownChroot;
\* and a start that keeps what is there.
TearDownLeftover_Keeps == <<>>
TearDownLeftover == TearDownChroot

\* The loops of SetUpChroot over a list.
RECURSIVE BindMountPartitions(_)
BindMountPartitions(partitions) ==
  IF partitions = <<>> THEN <<>>
  ELSE BindMount(<<Head(partitions)>>, PathInChroot(<<Head(partitions)>>))
       \o BindMountPartitions(Tail(partitions))
RECURSIVE BindMountSrcs(_)
BindMountSrcs(srcs) ==
  IF srcs = <<>> THEN <<>>
  ELSE BindMountRecursive(Head(srcs), PathInChroot(Head(srcs))) \o BindMountSrcs(Tail(srcs))
MountPartitions(partitions, slot) ==
  [i \in 1..Len(partitions) |->
     MountCall(GetBlockDeviceName(partitions[i], slot), PathInChroot(<<partitions[i]>>),
               <<>>)]

\* The system partitions of the chroot: bind mounts of the running system for
\* a Mainline update, the block devices that snapshotctl maps for an OTA update.
MountSystemPartitions(ota_slot) ==
  IF ~IsOtaUpdate(ota_slot)
  THEN BindMount(<<>>, CHROOT_DIR) \o BindMountPartitions(additional_system_partitions)
  ELSE <<SetPropertyCall("Failed to request snapshotctl map"), WaitForPropertyCall,
         MountCall(GetBlockDeviceName("system", ota_slot), CHROOT_DIR, <<>>)>>
       \o MountPartitions(additional_system_partitions, ota_slot)

\* SetUpChroot: tear down what is left over, make CHROOT_DIR, mount the system
\* partitions, the tmpfs mounts, the data partitions and the Linux API
\* filesystems, then run apexd and linkerconfig in the chroot.
SetUpChroot(ota_slot) ==
  TearDownLeftover
  \o <<CreateDirCall(CHROOT_DIR)>>
  \o MountSystemPartitions(ota_slot)
  \o <<MountTmpfsCall(PathInChroot(<<"apex">>)),
       MountTmpfsCall(PathInChroot(<<"linkerconfig">>)),
       MountTmpfsCall(PathInChroot(<<"mnt">>)),
       CreateDirCall(PathInChroot(<<"mnt", "artd_tmp">>)),
       MountTmpfsCall(PathInChroot(<<"mnt", "artd_tmp">>)),
       CreateDirCall(PathInChroot(<<"mnt", "expand">>))>>
  \o BindMountSrcs(bind_mount_srcs)
  \o <<GetArtExecCmdlineBuilderCall, RunCall("apexd", "--otachroot-bootstrap"),
       GetArtExecCmdlineBuilderCall, RunCall("linkerconfig", "--target")>>

\* ------------------------------------------------ the calls of the service

\* ScopedAStatus: ok, Fatal (EX_ILLEGAL_STATE) or NonFatal (service specific).
StatusOk == [kind |-> "ok", message |-> NoMessage]
Fatal(message) == [kind |-> "Fatal", message |-> message]
NonFatal(message) == [kind |-> "NonFatal", message |-> message]

\* The number of calls that the environment makes fail in one history.
MaxFaults == 2

\* std::mutex::try_lock: true when no thread holds the mutex; and a
\* try_lock that is always true.
try_lock_Always == TRUE
try_lock == mu_ = NoThread

\* The start of setUp or tearDown on a binder thread: try_lock, and with the
\* mutex held by another call the return of the fatal status.
Arrive(t, op, in_otaSlot) ==
  /\ binder_calls[t].pc = "idle"
  /\ IF ~try_lock
     THEN /\ binder_calls' = [binder_calls EXCEPT ![t] =
                [pc |-> "return", op |-> op, in_otaSlot |-> in_otaSlot, lock |-> FALSE,
                 status |-> Fatal(Message("Unexpected concurrent calls", <<>>)),
                 injected |-> FALSE, leftover |-> FALSE]]
          /\ UNCHANGED mu_
     ELSE /\ mu_' = t
          /\ binder_calls' = [binder_calls EXCEPT ![t] =
                [pc |-> "locked", op |-> op, in_otaSlot |-> in_otaSlot, lock |-> TRUE]]
  /\ UNCHANGED <<directories, proc_mounts, supported_filesystems, faults,
                 processes, clock, ensure, artVars>>

\* Something of a chroot is there: the directory, or a mount at or under it.
ChrootPresent(dirs, mounts) ==
  \/ CHROOT_DIR \in dirs
  \/ GetProcMountsDescendantsOfPath(mounts, CHROOT_DIR) # <<>>

\* The call of the thread that holds the mutex, inside SetUpChroot or
\* TearDownChroot: the calls to the operating system it has still to make.
\* The record notes whether the function found something of a chroot and
\* whether the environment made it fail.
Running(call, todo) ==
  [pc |-> "running", op |-> call.op, in_otaSlot |-> call.in_otaSlot, lock |-> TRUE,
   todo |-> todo, injected |-> FALSE,
   leftover |-> ChrootPresent(directories, proc_mounts)]

\* DexoptChrootSetup::setUp with the mutex held: the check of the slot, then
\* SetUpChroot.
setUp(t) ==
  /\ binder_calls[t].pc = "locked" /\ binder_calls[t].op = "setUp"
  /\ LET in_otaSlot == binder_calls[t].in_otaSlot
     IN binder_calls' = [binder_calls EXCEPT ![t] =
          IF IsOtaUpdate(in_otaSlot) /\ in_otaSlot # "_a" /\ in_otaSlot # "_b"
          THEN [pc |-> "return", op |-> @.op, in_otaSlot |-> in_otaSlot, lock |-> TRUE,
                status |-> Fatal(Message("Invalid OTA slot '{}'", <<in_otaSlot>>)),
                injected |-> FALSE, leftover |-> FALSE]
          ELSE Running(@, SetUpChroot(in_otaSlot))]
  /\ UNCHANGED <<mu_, directories, proc_mounts, supported_filesystems, faults,
                 processes, clock, ensure, artVars>>

\* DexoptChrootSetup::tearDown with the mutex held.
tearDown(t) ==
  /\ binder_calls[t].pc = "locked" /\ binder_calls[t].op = "tearDown"
  /\ binder_calls' = [binder_calls EXCEPT ![t] = Running(@, TearDownChroot)]
  /\ UNCHANGED <<mu_, directories, proc_mounts, supported_filesystems, faults,
                 processes, clock, ensure, artVars>>

\* The call to the operating system that the function makes next.
Execute(call, os, static, fails, apexd_unmounts) ==
  CASE call.op = "CreateDir" -> CreateDir(os, static, call.path, fails)
    [] call.op = "mount_MS_BIND" -> mount_MS_BIND(os, static, call.source, call.target, fails)
    [] call.op = "mount_MS_SLAVE" -> mount_MS_SLAVE(os, static, call.target, fails)
    [] call.op = "Mount" -> Mount(os, static, call, fails)
    [] call.op = "MountTmpfs" -> MountTmpfs(os, static, call.target, fails)
    [] call.op = "umount2" -> umount2(os, static, call.mount_point, fails)
    [] call.op = "remove_all" -> remove_all(os, static, call.path, fails)
    [] call.op = "ReadFstabFromProcMounts" -> ReadFstabFromProcMounts(os, static, call, fails)
    [] call.op = "SetProperty" -> SetProperty(os, static, call.text, fails)
    [] call.op = "WaitForProperty" -> WaitForProperty(os, static, fails)
    [] call.op = "GetArtExecCmdlineBuilder" -> GetArtExecCmdlineBuilder(os, static, fails)
    [] call.op = "Run" -> Run(os, static, call.log_name, call.option, fails, apexd_unmounts)

\* What the environment may do to a call, while faults are left: make it
\* fail, or let apexd report an unmount that it did not do.  A Mount that
\* returns the error kept in the static makes no call.
Outcomes(call) ==
  IF faults >= MaxFaults \/ (call.op = "Mount" /\ supported_filesystems.initialized
                                               /\ ~supported_filesystems.ok)
  THEN {"done"}
  ELSE IF call.op = "Run" /\ call.option = "--unmount-all"
  THEN {"done", "fails", "reports only"}
  ELSE {"done", "fails"}

\* The state that the call of a thread is in after a call to the operating
\* system: an error is returned as a NonFatal status (OR_RETURN_NON_FATAL);
\* without error the function goes on, and returns ok after its last call.
AfterCall(call, result, injected) ==
  IF ~result.ok \/ result.next \o Tail(call.todo) = <<>>
  THEN [pc |-> "return", op |-> call.op, in_otaSlot |-> call.in_otaSlot, lock |-> TRUE,
        status |-> IF result.ok THEN StatusOk ELSE NonFatal(result.message),
        injected |-> call.injected \/ injected, leftover |-> call.leftover]
  ELSE [call EXCEPT !.todo = result.next \o Tail(@), !.injected = @ \/ injected]

\* The effect of a call to the operating system on the host.
Effect(t, result, injected) ==
  /\ directories' = result.os.dirs
  /\ proc_mounts' = result.os.mounts
  /\ supported_filesystems' = result.static
  /\ faults' = IF injected THEN faults + 1 ELSE faults
  /\ binder_calls' = [binder_calls EXCEPT ![t] = AfterCall(@, result, injected)]

\* One call to the operating system of SetUpChroot or TearDownChroot.  The
\* other threads run before and after it.
SystemCall(t) ==
  /\ binder_calls[t].pc = "running"
  /\ \E outcome \in Outcomes(Head(binder_calls[t].todo)) :
       Effect(t, Execute(Head(binder_calls[t].todo), OsState(directories, proc_mounts),
                         supported_filesystems, outcome = "fails", outcome # "reports only"),
              outcome # "done")
  /\ UNCHANGED <<mu_, processes, clock, ensure, artVars>>

\* The return of the call: the lock_guard that adopted the mutex unlocks it.
Return(t) ==
  /\ binder_calls[t].pc = "return"
  /\ mu_' = IF binder_calls[t].lock THEN NoThread ELSE mu_
  /\ binder_calls' = [binder_calls EXCEPT ![t] = NotInCall]
  /\ UNCHANGED <<directories, proc_mounts, supported_filesystems, faults,
                 processes, clock, ensure, artVars>>

\* The service called from its binder threads.
NextChroot ==
  \E t \in BinderThreads :
    \/ \E in_otaSlot \in OtaSlots : Arrive(t, "setUp", in_otaSlot)
    \/ Arrive(t, "tearDown", NoSlot)
    \/ setUp(t)
    \/ tearDown(t)
    \/ SystemCall(t)
    \/ Return(t)
SpecChroot == InitPlain /\ [][NextChroot]_vars

\* ------------------------------------------------------------------- C35

\* The calls that hold the mutex and have run to their return statement.
Returning(t, op) ==
  /\ binder_calls[t].pc = "return"
  /\ binder_calls[t].lock
  /\ binder_calls[t].op = op

\* The state in which a function leaves the operating system when the
\* environment makes no call fail.
RECURSIVE RunToEnd(_, _, _)
RunToEnd(os, static, todo) ==
  IF todo = <<>> THEN os
  ELSE LET result == Execute(Head(todo), os, static, FALSE, TRUE)
       IN IF ~result.ok THEN result.os
          ELSE RunToEnd(result.os, result.static, result.next \o Tail(todo))

\* The chroot that setUp makes on a host where nothing is set up.
FreshChroot(ota_slot) ==
  RunToEnd(OsState(HostDirs, HostMounts), Uninitialized, SetUpChroot(ota_slot))

\* /proc/filesystems could not be read when Mount was first called in the
\* process, so that every Mount returns that error.
MountDisabled == supported_filesystems.initialized /\ ~supported_filesystems.ok

\* C35: setUp and tearDown may be repeated in any order.  Whatever an earlier
\* call left behind, a setUp with a valid slot and a tearDown return ok unless
\* the environment makes a call to the operating system fail (for the setUp of
\* an OTA update also: unless it made the read of /proc/filesystems fail
\* before); a setUp that returns ok leaves the chroot that a setUp on a clean
\* host makes, so the leftover was torn down first; and after a tearDown that
\* returns ok the chroot directory does not exist and nothing is mounted at or
\* under it.
C35_SetUpTearDownRepeatable ==
  \A t \in BinderThreads :
    LET call == binder_calls[t]
    IN /\ Returning(t, "tearDown") =>
            /\ ~call.injected => call.status.kind = "ok"
            /\ call.status.kind = "ok" => ~ChrootPresent(directories, proc_mounts)
       /\ Returning(t, "setUp") /\ call.in_otaSlot \in {NoSlot, "_a", "_b"} =>
            /\ ~call.injected /\ ~(IsOtaUpdate(call.in_otaSlot) /\ MountDisabled) =>
                 call.status.kind = "ok"
            /\ call.status.kind = "ok" =>
                 /\ proc_mounts = FreshChroot(call.in_otaSlot).mounts
                 /\ directories = FreshChroot(call.in_otaSlot).dirs

\* A setUp returns ok although an earlier call failed and left a part of a
\* chroot behind.
C35_Witness ==
  \E t \in BinderThreads :
    /\ Returning(t, "setUp")
    /\ binder_calls[t].status.kind = "ok"
    /\ binder_calls[t].leftover
    /\ ~binder_calls[t].injected
    /\ faults = 1
    /\ Len(proc_mounts) > Len(HostMounts)

\* A tearDown returns ok on a host where nothing was set up.
C35_NothingSetUpWitness ==
  \E t \in BinderThreads :
    /\ Returning(t, "tearDown")
    /\ binder_calls[t].status.kind = "ok"
    /\ ~binder_calls[t].leftover

\* ------------------------------------------------------------------- C36

\* The calls that are inside setUp or tearDown with the mutex.
Executing == {t \in BinderThreads : binder_calls[t].pc # "idle" /\ binder_calls[t].lock}

\* At most one call executes, and it is the holder of the mutex.
OneCallExecutes ==
  /\ Cardinality(Executing) <= 1
  /\ \A t \in BinderThreads : (mu_ = t) <=> (t \in Executing)

\* A call can always start: it never waits for the mutex.
NeverBlocks ==
  \A t \in BinderThreads :
    binder_calls[t].pc = "idle" =>
      /\ ENABLED Arrive(t, "setUp", NoSlot)
      /\ ENABLED Arrive(t, "tearDown", NoSlot)

\* The call of t that arrives while the mutex is held returns the fatal status
\* and nothing else changes, neither then nor when it returns.
ConcurrentCallRefused ==
  \A t \in BinderThreads :
    /\ (binder_calls[t].pc = "idle" /\ binder_calls'[t].pc # "idle" /\ mu_ # NoThread) =>
         /\ binder_calls'[t].pc = "return"
         /\ ~binder_calls'[t].lock
         /\ binder_calls'[t].status.kind = "Fatal"
         /\ binder_calls'[t].status.message.text = "Unexpected concurrent calls"
         /\ UNCHANGED <<mu_, directories, proc_mounts, supported_filesystems>>
    /\ (binder_calls[t].pc = "return" /\ ~binder_calls[t].lock /\ binder_calls'[t].pc = "idle") =>
         UNCHANGED <<mu_, directories, proc_mounts, supported_filesystems>>

\* Only the call that holds the mutex creates, mounts, unmounts or removes,
\* one call to the operating system at a time.
OnlyHolderActs ==
  <<directories, proc_mounts>>' # <<directories, proc_mounts>> =>
    \E t \in BinderThreads :
      /\ mu_ = t /\ binder_calls[t].pc = "running"
      /\ binder_calls'[t].pc \in {"running", "return"}
      /\ \A u \in BinderThreads \ {t} : binder_calls'[u] = binder_calls[u]

\* C36: at most one of setUp and tearDown executes at a time; a call that
\* arrives while another call holds the mutex returns the fatal status
\* "Unexpected concurrent calls" without blocking and without creating,
\* mounting, unmounting or removing anything.
C36_ConcurrentCallsRefused ==
  /\ [](OneCallExecutes /\ NeverBlocks)
  /\ [][ConcurrentCallRefused /\ OnlyHolderActs]_vars

\* A call has been refused while the other call is inside SetUpChroot, between
\* two of its calls to the operating system, with a part of the chroot mounted.
C36_Witness ==
  \E t \in BinderThreads, u \in BinderThreads :
    /\ binder_calls[t].pc = "return" /\ ~binder_calls[t].lock
    /\ binder_calls[t].status.message.text = "Unexpected concurrent calls"
    /\ binder_calls[u].pc = "running" /\ binder_calls[u].op = "setUp" /\ mu_ = u
    /\ Len(proc_mounts) > Len(HostMounts)
    /\ Len(proc_mounts) < Len(FreshChroot(NoSlot).mounts)

\* ============================================ EnsureNoProcessInDir (tools.cc)

\* An unsigned 64-bit integer is kept as its four 16-bit digits, the most
\* significant first, so that the arithmetic modulo 2^64 is exact.
kDigit == 65536
Uint64(n) == <<0, 0, n \div kDigit, n % kDigit>>

\* a - b on uint64_t: the difference modulo 2^64, digit by digit with borrow.
Uint64Sub(a, b) ==
  LET borrow4 == IF a[4] < b[4] THEN 1 ELSE 0
      borrow3 == IF a[3] < b[3] + borrow4 THEN 1 ELSE 0
      borrow2 == IF a[2] < b[2] + borrow3 THEN 1 ELSE 0
  IN <<(a[1] - b[1] - borrow2) % kDigit,
       (a[2] - b[2] - borrow3) % kDigit,
       (a[3] - b[3] - borrow4) % kDigit,
       (a[4] - b[4]) % kDigit>>

\* a <= b on uint64_t.
Uint64LessEq(a, b) ==
  \/ a = b
  \/ \E i \in 1..4 : a[i] < b[i] /\ \A j \in 1..(i - 1) : a[j] = b[j]

\* The conversion of a uint64_t to the int parameter of poll: the low 32 bits,
\* read as a two's complement number.
ToInt(a) == IF a[3] >= kDigit \div 2 THEN (a[3] - kDigit) * kDigit + a[4]
            ELSE a[3] * kDigit + a[4]

\* The subtraction of the wait loop.
RemainingTimeout(timeout_ms, elapsed_time_ms) == Uint64Sub(timeout_ms, elapsed_time_ms)

\* The directory of the call, and the executables of the processes of the
\* host: two under the directory, one outside it.
EnsureDir == <<"data", "local", "tmp", "scratch">>
Pids == {101, 102, 103}
ExeOf(pid) ==
  IF pid = 103 THEN <<"data", "local", "tmp", "scratchy", "sleep">>
  ELSE EnsureDir \o <<"bin", "sleep">>

\* The processes when the tools are called: all running.  Readlink of
\* /proc/<pid>/exe works for the processes that the caller has access to; for
\* any of the others, under the directory or outside it, it fails.
ProcessTables ==
  {[pid \in Pids |-> [exe |-> ExeOf(pid), readable |-> pid \in accessible,
                      running |-> TRUE, signalled |-> FALSE]] : accessible \in SUBSET Pids}

\* The timeouts of the calls, and the last instant of the clock.
Timeouts == {1, 2}
MaxClock == 4

\* MilliTime.
MilliTime == clock

\* A scan that takes every process that runs.
ScanProcesses_All(dir) == {pid \in DOMAIN processes : processes[pid].running}

\* The loop over AllPids: the processes that run, whose executable can be
\* read and is under dir.
ScanProcesses(dir) ==
  {pid \in DOMAIN processes :
     /\ processes[pid].running
     /\ processes[pid].readable
     /\ PathStartsWith(processes[pid].exe, dir)}

\* The return of the function.
EnsureReturns(ok, text) ==
  ensure' = [ensure EXCEPT !.pc = "done", !.ok = ok, !.message = text]

\* EnsureNoProcessInDir up to the first wait: a pidfd for every process under
\* dir; pidfd_open can fail.
EnsureNoProcessInDir(dir, timeout_ms, try_kill) ==
  /\ ensure.pc = "idle"
  /\ processes # <<>>
  /\ LET found == ScanProcesses(dir)
         call == [pc |-> "wait", dir |-> dir, timeout_ms |-> timeout_ms,
                  try_kill |-> try_kill, running_processes |-> found, pollfds |-> found,
                  process_killed |-> FALSE, killed |-> {}, ok |-> TRUE, message |-> ""]
     IN \/ ensure' = call
        \/ /\ found # {}
           /\ ensure' = [call EXCEPT !.pc = "done", !.ok = FALSE, !.running_processes = {},
                                     !.pollfds = {}, !.message = "Failed to pidfd_open {}"]
  /\ UNCHANGED <<mu_, binder_calls, directories, proc_mounts, supported_filesystems,
                 faults, processes, clock, artVars>>

\* wait_for_processes: the start.
WaitStart ==
  /\ ensure.pc = "wait"
  /\ ensure' = [pc |-> "loop", start_time_ms |-> MilliTime,
                elapsed_time_ms |-> Uint64(0),
                remaining_timeout_ms |-> Uint64(ensure.timeout_ms)] @@ ensure
  /\ UNCHANGED <<mu_, binder_calls, directories, proc_mounts, supported_filesystems,
                 faults, processes, clock, artVars>>

\* The end of wait_for_processes: after the first wait the loop that kills,
\* after the second the end of the function.
WaitEnd == IF ensure.process_killed THEN "final" ELSE "kill"

\* The condition of the while loop, and the call of poll with the remaining
\* timeout converted to int.
WaitLoop ==
  /\ ensure.pc = "loop"
  /\ IF ensure.running_processes # {} /\ ensure.remaining_timeout_ms # Uint64(0)
     THEN ensure' = [pc |-> "poll", poll_start |-> clock,
                     poll_timeout |-> ToInt(ensure.remaining_timeout_ms)] @@ ensure
     ELSE ensure' = [ensure EXCEPT !.pc = WaitEnd]
  /\ UNCHANGED <<mu_, binder_calls, directories, proc_mounts, supported_filesystems,
                 faults, processes, clock, artVars>>

\* The pidfds that poll reports as readable: those of the processes that have
\* exited.
Readable == {pid \in ensure.pollfds : ~processes[pid].running}

\* The return of poll: an error, the pidfds that are readable, or 0 when the
\* timeout has passed (a negative timeout never passes).
Poll ==
  /\ ensure.pc = "poll"
  /\ \/ EnsureReturns(FALSE, "Failed to poll pidfd's")
     \/ /\ Readable # {}
        /\ ensure' = [pc |-> "polled", revents |-> Readable] @@ ensure
     \/ /\ Readable = {}
        /\ ensure.poll_timeout >= 0
        /\ clock >= ensure.poll_start + ensure.poll_timeout
        /\ ensure' = [ensure EXCEPT !.pc = WaitEnd]
  /\ UNCHANGED <<mu_, binder_calls, directories, proc_mounts, supported_filesystems,
                 faults, processes, clock, artVars>>

\* After poll: the elapsed time, the processes that exited are erased, and
\* the remaining timeout.
Polled ==
  /\ ensure.pc = "polled"
  /\ LET elapsed_time_ms == Uint64Sub(Uint64(MilliTime), Uint64(ensure.start_time_ms))
     IN ensure' = [ensure EXCEPT
          !.pc = "loop",
          !.running_processes = @ \ ensure.revents,
          !.pollfds = @ \ ensure.revents,
          !.elapsed_time_ms = elapsed_time_ms,
          !.remaining_timeout_ms = RemainingTimeout(Uint64(ensure.timeout_ms), elapsed_time_ms)]
  /\ UNCHANGED <<mu_, binder_calls, directories, proc_mounts, supported_filesystems,
                 faults, processes, clock, artVars>>

\* The processes that the loop after the first wait kills.
KillTargets_Always == ensure.running_processes
KillTargets == IF ensure.try_kill THEN ensure.running_processes ELSE {}

\* The loop over running_processes after the first wait: kill(pid, SIGKILL)
\* with try_kill; then a second wait if a process was killed.
Kill ==
  /\ ensure.pc = "kill"
  /\ processes' = [pid \in DOMAIN processes |->
                     IF pid \in KillTargets /\ processes[pid].running
                     THEN [processes[pid] EXCEPT !.signalled = TRUE]
                     ELSE processes[pid]]
  /\ ensure' = [ensure EXCEPT !.pc = IF KillTargets # {} THEN "wait" ELSE "final",
                              !.process_killed = KillTargets # {},
                              !.killed = KillTargets]
  /\ UNCHANGED <<mu_, binder_calls, directories, proc_mounts, supported_filesystems,
                 faults, clock, artVars>>

\* The end of the function.
EnsureFinal ==
  /\ ensure.pc = "final"
  /\ IF ensure.running_processes # {}
     THEN EnsureReturns(FALSE, "Some process(es) are still running after {}ms")
     ELSE EnsureReturns(TRUE, "")
  /\ UNCHANGED <<mu_, binder_calls, directories, proc_mounts, supported_filesystems,
                 faults, processes, clock, artVars>>

\* The caller has the result.
EnsureDone ==
  /\ ensure.pc = "done"
  /\ ensure' = NotCalled
  /\ UNCHANGED <<mu_, binder_calls, directories, proc_mounts, supported_filesystems,
                 faults, processes, clock, artVars>>

\* A process exits, by itself or because it was killed.
ProcessExits(pid) ==
  /\ processes # <<>>
  /\ processes[pid].running
  /\ processes' = [processes EXCEPT ![pid].running = FALSE]
  /\ UNCHANGED <<mu_, binder_calls, directories, proc_mounts, supported_filesystems,
                 faults, clock, ensure, artVars>>

\* A millisecond passes.
Tick ==
  /\ clock < MaxClock
  /\ clock' = clock + 1
  /\ UNCHANGED <<mu_, binder_calls, directories, proc_mounts, supported_filesystems,
                 faults, processes, ensure, artVars>>

InitEnsure ==
  /\ RuntimeInit /\ layout = Layout("kBoolean", "kByte", "kPrimInt")
  /\ mu_ = NoThread
  /\ binder_calls = [t \in BinderThreads |-> NotInCall]
  /\ directories = HostDirs
  /\ proc_mounts = HostMounts
  /\ supported_filesystems = Uninitialized
  /\ faults = 0
  /\ processes \in ProcessTables
  /\ clock = 0
  /\ ensure = NotCalled

NextEnsure ==
  \/ \E timeout_ms \in Timeouts, try_kill \in BOOLEAN :
       EnsureNoProcessInDir(EnsureDir, timeout_ms, try_kill)
  \/ WaitStart
  \/ WaitLoop
  \/ Poll
  \/ Polled
  \/ Kill
  \/ EnsureFinal
  \/ EnsureDone
  \/ \E pid \in Pids : ProcessExits(pid)
  \/ Tick
SpecEnsure == InitEnsure /\ [][NextEnsure]_vars

\* ------------------------------------------------------------------- C37

UnderDir(pid) == PathStartsWith(processes[pid].exe, ensure.dir)
kStillRunning == "Some process(es) are still running after {}ms"

\* What the function waits for and kills are processes under dir.
OnlyProcessesInDir ==
  ensure.pc # "idle" =>
    \A pid \in ensure.pollfds \union ensure.running_processes \union ensure.killed :
      UnderDir(pid)

\* Success is returned only with every process under dir gone.
SuccessOnlyWhenExited ==
  (ensure.pc = "done" /\ ensure.ok) =>
    \A pid \in Pids : UnderDir(pid) => ~processes[pid].running

\* The same for the processes under dir whose executable the caller can read.
SuccessOnlyWhenAccessibleExited ==
  (ensure.pc = "done" /\ ensure.ok) =>
    \A pid \in Pids : (UnderDir(pid) /\ processes[pid].readable) => ~processes[pid].running

\* The error of the timeout is returned with a process that was not seen to
\* exit, and without try_kill with no process killed; with processes left
\* the result is that error, or the error of poll.
ResultsOfEnsure ==
  ensure.pc = "done" =>
    /\ ensure.message = kStillRunning =>
         /\ ensure.running_processes # {}
         /\ ~ensure.try_kill => ensure.killed = {}
         /\ ensure.try_kill => ensure.killed # {} /\ ensure.process_killed
    /\ ensure.running_processes # {} =>
         ~ensure.ok /\ ensure.message \in {kStillRunning, "Failed to poll pidfd's"}

\* A process is sent SIGKILL only by a call with try_kill, after the wait, and
\* only if it is under dir and was still running for the call.
KillsOnlyWithTryKill ==
  \A pid \in Pids :
    (processes # <<>> /\ processes'[pid].signalled /\ ~processes[pid].signalled) =>
      /\ ensure.pc = "kill" /\ ensure.try_kill
      /\ pid \in ensure.running_processes
      /\ UnderDir(pid)

\* The timeout has expired by the function's own measure of the time, at the
\* test of its wait loop, with processes left.
TimeoutExpired ==
  /\ ensure.pc = "loop"
  /\ ensure.running_processes # {}
  /\ Uint64LessEq(Uint64(ensure.timeout_ms), ensure.elapsed_time_ms)

\* When the timeout expires the function stops waiting: its next step leads to
\* the loop that kills, or after the second wait to its end.
StopsWhenTimeoutExpires ==
  (TimeoutExpired /\ ensure' # ensure) => ensure'.pc = WaitEnd

\* After the wait, processes that are left are killed with try_kill and the
\* function waits again; without try_kill it goes to its end with the error.
AfterTheWait ==
  (ensure.pc = "kill" /\ ensure'.pc # "kill" /\ ensure.running_processes # {}) =>
    IF ensure.try_kill
    THEN ensure'.pc = "wait" /\ ensure'.killed = ensure.running_processes
    ELSE ensure'.pc = "final" /\ processes' = processes

\* C37: EnsureNoProcessInDir returns success only if every process whose
\* executable is under dir has exited; if some are still running when the
\* timeout expires it kills them only when try_kill is true and otherwise
\* returns the error "Some process(es) are still running after <timeout>ms"
\* and leaves them running; it never waits for or kills a process whose
\* executable is outside dir.
C37_EnsureNoProcessInDir ==
  /\ [](OnlyProcessesInDir /\ SuccessOnlyWhenExited /\ ResultsOfEnsure)
  /\ [][KillsOnlyWithTryKill /\ StopsWhenTimeoutExpires /\ AfterTheWait]_vars

\* What holds of the function whatever the caller can read and however late
\* the time is measured: the parts of C37 without the timeout, and success
\* only with the accessible processes under dir gone.
EnsureWithoutTimeout ==
  /\ [](OnlyProcessesInDir /\ SuccessOnlyWhenAccessibleExited /\ ResultsOfEnsure)
  /\ [][KillsOnlyWithTryKill /\ AfterTheWait]_vars

\* The timeout expired with a process under dir running and the function
\* polls again, without a timeout: it neither kills nor returns the error.
C37_StillWaitingAfterTimeout ==
  /\ ensure.pc = "poll"
  /\ ensure.poll_timeout < 0
  /\ ~Uint64LessEq(ensure.elapsed_time_ms, Uint64(ensure.timeout_ms))
  /\ \E pid \in ensure.running_processes : processes[pid].running /\ processes[pid].readable

\* Success is returned while a process under dir runs: the caller cannot read
\* its executable, so that the scan passed over it.
C37_SuccessWithProcessRunning ==
  /\ ensure.pc = "done" /\ ensure.ok
  /\ \E pid \in Pids : UnderDir(pid) /\ processes[pid].running /\ ~processes[pid].readable

\* The error of the timeout without try_kill: a process under dir and the
\* process outside it are running, none was killed.
C37_Witness ==
  /\ ensure.pc = "done" /\ ~ensure.ok /\ ensure.message = kStillRunning
  /\ ~ensure.try_kill
  /\ processes[101].running /\ processes[103].running
  /\ \A pid \in Pids : ~processes[pid].signalled

\* Success after the kill, with the process outside dir still running.
C37_KillWitness ==
  /\ ensure.pc = "done" /\ ensure.ok /\ ensure.try_kill
  /\ ensure.killed = {101, 102}
  /\ processes[103].running /\ ~processes[103].signalled

\* ------------------------------------------------------------------- C38

\* C38: in the wait loop the remaining timeout never exceeds timeout_ms (the
\* subtraction timeout_ms - elapsed_time_ms does not wrap around), so poll is
\* called with a timeout between 1 and timeout_ms and the loop ends once the
\* timeout has elapsed.
C38_RemainingNeverExceedsTimeout ==
  ensure.pc \in {"loop", "poll", "polled"} =>
    /\ Uint64LessEq(ensure.remaining_timeout_ms, Uint64(ensure.timeout_ms))
    /\ ensure.pc = "poll" => ensure.poll_timeout \in 1..ensure.timeout_ms

\* The subtraction has wrapped around: the elapsed time was larger than the
\* timeout, and poll waits without a timeout for a process that still runs.
C38_WrapAround ==
  /\ ensure.pc = "poll"
  /\ ensure.poll_timeout < 0
  /\ ~Uint64LessEq(ensure.remaining_timeout_ms, Uint64(ensure.timeout_ms))
  /\ clock > ensure.start_time_ms + ensure.timeout_ms
  /\ \E pid \in ensure.running_processes : processes[pid].running

====
